---- MODULE Spec2Model ----
(***************************************************************************)
(* SwanOS: the LLM kernel (kernel/core.py) and its tool router             *)
(* (kernel/scheduler.py).                                                  *)
(*                                                                         *)
(* Three specifications share the module's variables:                      *)
(*   Spec          one LLMKernel instance: run, the provider call with its *)
(*                 retries and key rotation, tool dispatch, clear_history, *)
(*                 against a provider that answers anything (env = "any")  *)
(*                 or 429 to every attempt (env = "rate_limited");         *)
(*   SpecTruncate  the pure function _truncate on bounded inputs;          *)
(*   SpecScheduler a Scheduler on its own: register_driver, dispatch,      *)
(*                 get_all_tool_definitions.                               *)
(* Python strings that only travel through the kernel are TLA+ strings     *)
(* (non-ASCII glyphs of the source's literals are written in ASCII); the   *)
(* strings _truncate slices are sequences of Unicode code points.          *)
(***************************************************************************)
EXTENDS Integers, Sequences, FiniteSets, TLC

VARIABLES
    \* ---- LLMKernel fields
    env,                \* the provider's behaviour: "any" or "rate_limited"
    provider,           \* self.provider: "groq" or "gemini"
    api_keys,           \* self.api_keys
    _key_index,         \* self._key_index
    history,            \* self.history
    _tools,             \* self._tools
    \* ---- Scheduler fields (the kernel's scheduler, or the one of SpecScheduler)
    _drivers,           \* self._drivers
    _tool_map,          \* self._tool_map
    \* ---- the position of run and its locals
    pc,                 \* "idle" | "awaiting" | "dispatching"
    messages,           \* messages (_run_groq) / contents (_run_gemini)
    round,              \* the iteration of `for _ in range(MAX_TOOL_ROUNDS)`, from 1
    attempt,            \* the iteration of `for attempt in range(1, MAX_RETRIES + 1)`
    backoff,            \* backoff, in seconds
    pending,            \* the tool calls of the response not dispatched yet
    fn_response_parts,  \* fn_response_parts (_run_gemini)
    ret,                \* how the last operation ended
    response,           \* the body of the last provider response of this run
    \* ---- observations
    runs,               \* run calls made so far
    calls,              \* provider calls of this run that returned a response
    allTools,           \* every response of this run requested a tool
    hist0,              \* self.history when this run was called
    keyLog,             \* the key of every HTTP attempt of the kernel's lifetime
    statuses,           \* the status of every attempt of this provider call
    sleeps,             \* the time.sleep delays of this provider call, in ms
    dispatched,         \* the dispatches of this run, in order
    \* ---- _truncate on its own
    text, max_len, truncated,
    \* ---- Scheduler on its own
    d_request, d_result,
    \* ---- the schema builders on their own
    neutral_tools,      \* the neutral schemas handed to the builders
    built,              \* what the builders returned
    \* ---- FilesystemDriver on its own
    fs_request,         \* the tool call: tool_name and the path argument
    fs_result,          \* what execute returned and the path it touched
    \* ---- several threads in one kernel
    threads,            \* each thread's position in _next_key and its locals
    \* ---- several kernels in one process
    kernels,            \* each instance's attributes (references and numbers)
    heap,               \* the objects the references point to
    last_call,          \* the instance and method of the last call, and the calls so far
    \* ---- the serial bridge (bridge.py) on its own
    bridge,             \* stdin and the characters read, buffer, the writes to stdout
    bridge_log,         \* the calls of call_llm so far: the query and what it returned
    \* ---- the two provider loops side by side
    loops,              \* for each provider, the position and the locals of its loop
    fed                 \* the run in course and the provider results it was given

kvars == <<env, provider, api_keys, _key_index, history, _tools, pc, messages, round,
           attempt, backoff, pending, fn_response_parts, ret, response, runs, calls,
           allTools, hist0, keyLog, statuses, sleeps, dispatched>>
schedvars == <<_drivers, _tool_map>>
tvars == <<text, max_len, truncated>>
dvars == <<d_request, d_result>>
svars == <<neutral_tools, built>>
fvars == <<fs_request, fs_result>>
cvars == <<threads>>
ivars == <<kernels, heap, last_call>>
bvars == <<bridge, bridge_log>>
lvars == <<loops, fed>>
xvars == <<svars, fvars, cvars, ivars, bvars, lvars>>
vars == <<kvars, schedvars, tvars, dvars, xvars>>

----------------------------------------------------------------------------
(* Program constants *)

MAX_RETRIES == 5
INITIAL_BACKOFF == 2
MAX_RESULT_LEN == 4000
\* time.sleep(0.5) between rotated keys, in milliseconds
ROTATE_SLEEP_MS == 500

\* The configured limits. core.py sets MAX_HISTORY = 20 and config.py sets
\* MAX_TOOL_ROUNDS = 10; the code reads them only through len(...) > MAX_HISTORY,
\* [-MAX_HISTORY:] and range(MAX_TOOL_ROUNDS), so the model runs them small.
MAX_HISTORY == 4
MAX_TOOL_ROUNDS == 2

(* Bounds of the model *)
\* HTTP attempts over the kernel's lifetime, against a provider of any behaviour
MaxAttempts == 6
\* keys in the pool, against a provider that answers 429 to every attempt
MaxKeys == 6
MaxTextLen == 4
MaxMaxLen == 4
MaxDrivers == 3
\* comma-separated fields of the key variable of the environment
MaxKeyFields == 2
\* schemas handed to a builder
MaxTools == 2
\* calls made on the instances of SpecKernels, all instances together
MaxKernelCalls == 4
\* calls of _next_key each thread of SpecThreads makes
MaxThreadCalls == 2
\* characters of a path argument of SpecFilesystem
MaxPathLen == 5
\* characters on the stdin of SpecBridge
MaxInputLen == 4

None == "None"
SYSTEM_PROMPT == "You are SwanOS, an AI-powered operating system."
NO_RESPONSE == "[No response from kernel]"
MAX_ROUNDS_MSG == "(!) Reached maximum tool rounds - stopping."

Min(a, b) == IF a < b THEN a ELSE b
Max(a, b) == IF a > b THEN a ELSE b
Range(s) == {s[i] : i \in DOMAIN s}

RECURSIVE Pow2(_)
Pow2(n) == IF n = 0 THEN 1 ELSE 2 * Pow2(n - 1)

----------------------------------------------------------------------------
(* _truncate *)

\* "\n...[truncated]...\n" with U+2026 for each ellipsis: 15 code points
TRUNCATION_MARKER ==
    <<10, 8230, 91, 116, 114, 117, 110, 99, 97, 116, 101, 100, 93, 8230, 10>>

\* A Python slice bound i on a sequence of length n: negative counts from the
\* end, and the result is clamped to 0..n.
PySliceIndex(i, n) == IF i < 0 THEN Max(n + i, 0) ELSE Min(i, n)

\* s[:stop]
PySliceTo(s, stop) == SubSeq(s, 1, PySliceIndex(stop, Len(s)))

\* s[start:]
PySliceFrom(s, start) == SubSeq(s, PySliceIndex(start, Len(s)) + 1, Len(s))

_truncate(t, limit) ==
    IF Len(t) <= limit
    THEN t
    ELSE LET half == limit \div 2
         IN  PySliceTo(t, half) \o TRUNCATION_MARKER \o PySliceFrom(t, 0 - half)

----------------------------------------------------------------------------
(* Scheduler *)

FilesystemDriver ==
    [id |-> "FilesystemDriver",
     tools |-> <<"list_directory", "read_file", "write_file", "append_file",
                 "delete_file", "move_file", "copy_file", "create_directory">>]
CodeExecutorDriver == [id |-> "CodeExecutorDriver", tools |-> <<"execute_python">>]
WebSearchDriver == [id |-> "WebSearchDriver", tools |-> <<"web_search">>]

\* Scheduler.__init__
NewScheduler == [_drivers |-> <<>>, _tool_map |-> <<>>]

\* Faulty variant of register_driver: a name already in the map keeps its
\* driver (self._tool_map.setdefault(name, driver))
RegisterDriverFirstWins(sched, driver) ==
    [_drivers |-> Append(sched._drivers, driver),
     _tool_map |-> [n \in DOMAIN sched._tool_map \cup Range(driver.tools) |->
                        IF n \in DOMAIN sched._tool_map THEN sched._tool_map[n]
                        ELSE driver.id]]

\* Scheduler.register_driver: the scheduler after registering `driver`
register_driver(sched, driver) ==
    [_drivers |-> Append(sched._drivers, driver),
     _tool_map |-> [n \in DOMAIN sched._tool_map \cup Range(driver.tools) |->
                        IF n \in Range(driver.tools) THEN driver.id
                        ELSE sched._tool_map[n]]]

RECURSIVE ConcatTools(_)
ConcatTools(ds) ==
    IF ds = <<>> THEN <<>> ELSE Head(ds).tools \o ConcatTools(Tail(ds))

RECURSIVE ConcatToolsNewestFirst(_)
ConcatToolsNewestFirst(ds) ==
    IF ds = <<>> THEN <<>> ELSE ConcatToolsNewestFirst(Tail(ds)) \o Head(ds).tools

\* Faulty variant of get_all_tool_definitions: the newest driver's schemas
\* come first
GetAllToolDefinitionsNewestFirst(drivers) == ConcatToolsNewestFirst(drivers)

\* Scheduler.get_all_tool_definitions (each schema stands by its tool name)
get_all_tool_definitions(drivers) == ConcatTools(drivers)

\* f"... Unknown tool: {tool_name}"
UnknownToolText(tool_name) == "(x) Unknown tool: " \o tool_name

\* f"... Driver error in '{tool_name}': {e}"
DriverErrorText(tool_name, e) ==
    "(x) Driver error in '" \o tool_name \o "': " \o e

\* self._tool_map.get(tool_name)
ToolMapGet(tool_map, tool_name) ==
    IF tool_name \in DOMAIN tool_map THEN tool_map[tool_name] ELSE None

\* Faulty variant of DispatchUnknown: self._tool_map[tool_name] instead of .get
DispatchUnknownRaises(tool_name) ==
    [raised |-> TRUE, value |-> "KeyError", executed |-> <<>>]

\* dispatch when no driver owns the tool: the tagged string, no driver called
DispatchUnknown(tool_name) ==
    [raised |-> FALSE, value |-> UnknownToolText(tool_name), executed |-> <<>>]

\* Faulty variant of DispatchDriverError: no try/except around driver.execute
DispatchDriverPropagates(driver, tool_name, e) ==
    [raised |-> TRUE, value |-> e, executed |-> <<driver>>]

\* dispatch when driver.execute raised exception e: caught, the tagged string
DispatchDriverError(driver, tool_name, e) ==
    [raised |-> FALSE, value |-> DriverErrorText(tool_name, e), executed |-> <<driver>>]

\* Scheduler.dispatch. `execute` is what driver.execute(tool_name, args) does if
\* it is called: [kind |-> "return", value |-> s] or [kind |-> "raise", exc |-> e].
dispatch(tool_map, tool_name, args, execute) ==
    LET driver == ToolMapGet(tool_map, tool_name)
    IN  IF driver = None
        THEN DispatchUnknown(tool_name)
        ELSE IF execute.kind = "return"
             THEN [raised |-> FALSE, value |-> execute.value, executed |-> <<driver>>]
             ELSE DispatchDriverError(driver, tool_name, execute.exc)

\* What a driver's execute can do
ExecOutcomes ==
    {[kind |-> "return", value |-> "a.txt b.txt"],
     [kind |-> "raise", exc |-> "boom"]}

----------------------------------------------------------------------------
(* The kernel's fields while another specification runs: no kernel is built *)

\* no provider response was received yet
NoResponse == [result |-> "none", text |-> "", calls |-> <<>>]

KernelOff ==
    /\ env = None /\ provider = None /\ api_keys = <<>> /\ _key_index = 0 /\ history = <<>>
    /\ _tools = <<>> /\ response = NoResponse
    /\ pc = "off" /\ messages = <<>> /\ round = 0 /\ attempt = 0 /\ backoff = 0
    /\ pending = <<>> /\ fn_response_parts = <<>>
    /\ ret = [kind |-> "none", value |-> None]
    /\ runs = 0 /\ calls = 0 /\ allTools = TRUE /\ hist0 = <<>>
    /\ keyLog = <<>> /\ statuses = <<>> /\ sleeps = <<>> /\ dispatched = <<>>

TruncateOff == text = <<>> /\ max_len = 0 /\ truncated = [done |-> FALSE, value |-> <<>>]

DispatchOff == d_request = [op |-> "none"] /\ d_result = [op |-> "none"]

SchemasOff == neutral_tools = <<>> /\ built = [done |-> FALSE]

FilesystemOff == fs_request = [tool_name |-> None] /\ fs_result = [done |-> FALSE]

ThreadsOff == threads = <<>>

KernelsOff == kernels = <<>> /\ heap = <<>> /\ last_call = [instance |-> 0]

BridgeOff == bridge = [pc |-> "off"] /\ bridge_log = <<>>

LoopsOff == loops = <<>> /\ fed = [run |-> 0, results |-> <<>>]

----------------------------------------------------------------------------
(* SpecTruncate: _truncate applied to every text and limit within the bounds *)

\* the characters of the texts: "a" and "b"
TextChars == {97, 98}

Texts == UNION {[1..n -> TextChars] : n \in 0..MaxTextLen}

TruncateInit ==
    /\ text \in Texts
    /\ max_len \in 0..MaxMaxLen
    /\ truncated = [done |-> FALSE, value |-> <<>>]
    /\ KernelOff /\ DispatchOff /\ SchemasOff /\ FilesystemOff /\ ThreadsOff /\ KernelsOff /\ BridgeOff
    /\ LoopsOff
    /\ _drivers = <<>> /\ _tool_map = <<>>

Truncate ==
    /\ ~truncated.done
    /\ truncated' = [done |-> TRUE, value |-> _truncate(text, max_len)]
    /\ UNCHANGED <<text, max_len, kvars, schedvars, dvars, xvars>>

TruncateNext == Truncate

SpecTruncate == TruncateInit /\ [][TruncateNext]_vars

----------------------------------------------------------------------------
(* SpecScheduler: a Scheduler, drivers registered in any order, any dispatch *)

\* Drivers that share tool names, next to one of the kernel's own
DriverA == [id |-> "DriverA", tools |-> <<"alpha", "beta">>]
DriverB == [id |-> "DriverB", tools |-> <<"beta", "gamma">>]
DriverPool == {DriverA, DriverB, CodeExecutorDriver}

ToolNames == {"alpha", "beta", "gamma", "execute_python", "no_such_tool"}

SchedulerInit ==
    /\ _drivers = NewScheduler._drivers
    /\ _tool_map = NewScheduler._tool_map
    /\ DispatchOff /\ KernelOff /\ TruncateOff
    /\ SchemasOff /\ FilesystemOff /\ ThreadsOff /\ KernelsOff /\ BridgeOff
    /\ LoopsOff

RegisterDriver(driver) ==
    /\ Len(_drivers) < MaxDrivers
    /\ LET s == register_driver([_drivers |-> _drivers, _tool_map |-> _tool_map], driver)
       IN  /\ _drivers' = s._drivers
           /\ _tool_map' = s._tool_map
    /\ d_request' = [op |-> "register_driver", driver |-> driver.id]
    /\ d_result' = [op |-> "register_driver"]
    /\ UNCHANGED <<kvars, tvars, xvars>>

Dispatch(tool_name, execute) ==
    /\ d_request' = [op |-> "dispatch", tool_name |-> tool_name, execute |-> execute,
                     tool_map |-> _tool_map]
    /\ d_result' = [op |-> "dispatch"] @@ dispatch(_tool_map, tool_name, <<>>, execute)
    /\ UNCHANGED <<schedvars, kvars, tvars, xvars>>

GetAllToolDefinitions ==
    /\ d_request' = [op |-> "get_all_tool_definitions", drivers |-> _drivers,
                     tool_map |-> _tool_map]
    /\ d_result' = [op |-> "get_all_tool_definitions",
                    tools |-> get_all_tool_definitions(_drivers)]
    /\ UNCHANGED <<schedvars, kvars, tvars, xvars>>

SchedulerNext ==
    \/ \E driver \in DriverPool : RegisterDriver(driver)
    \/ \E tool_name \in ToolNames, execute \in ExecOutcomes : Dispatch(tool_name, execute)
    \/ GetAllToolDefinitions

SpecScheduler == SchedulerInit /\ [][SchedulerNext]_vars

----------------------------------------------------------------------------
(* LLMKernel: helpers *)

\* d.get(k, default) on a dict (a function on its keys)
DictGet(d, k, default) == IF k \in DOMAIN d THEN d[k] ELSE default

\* {} and []
EmptyDict == <<>>

\* The schemas the drivers' get_tool_definitions return, by tool name
StringParam(description) == [type |-> "string", description |-> description]

NeutralTool(name, description, parameters) ==
    [type |-> "function",
     function |-> [name |-> name, description |-> description,
                   parameters |-> parameters]]

ObjectParams(properties, required) ==
    [type |-> "object", properties |-> properties, required |-> required]

FILE_PATH == StringParam("Relative path to the file inside workspace.")
SOURCE == StringParam("Relative path of the source file/directory.")
DESTINATION == StringParam("Relative path of the destination.")

ToolSchema(name) ==
    CASE name = "list_directory" ->
           NeutralTool(name, "Lists all files and folders at a path inside the workspace.",
               [type |-> "object",
                properties |-> [path |-> StringParam(
                    "Relative path inside workspace. Use '.' for root.")]])
      [] name = "read_file" ->
           NeutralTool(name, "Reads and returns the content of a file in the workspace.",
               ObjectParams([file_path |-> FILE_PATH], <<"file_path">>))
      [] name = "write_file" ->
           NeutralTool(name,
               "Writes content to a file in the workspace. Creates it if it doesn't exist.",
               ObjectParams([file_path |-> FILE_PATH,
                             content |-> StringParam("The text content to write.")],
                            <<"file_path", "content">>))
      [] name = "append_file" ->
           NeutralTool(name, "Appends content to the end of an existing file.",
               ObjectParams([file_path |-> FILE_PATH,
                             content |-> StringParam("The text content to append.")],
                            <<"file_path", "content">>))
      [] name = "delete_file" ->
           NeutralTool(name, "Deletes a file or directory from the workspace.",
               ObjectParams([file_path |-> StringParam(
                                "Relative path to the file or directory.")],
                            <<"file_path">>))
      [] name = "move_file" ->
           NeutralTool(name, "Moves or renames a file/directory within the workspace.",
               ObjectParams([source |-> SOURCE, destination |-> DESTINATION],
                            <<"source", "destination">>))
      [] name = "copy_file" ->
           NeutralTool(name, "Copies a file or directory within the workspace.",
               ObjectParams([source |-> SOURCE, destination |-> DESTINATION],
                            <<"source", "destination">>))
      [] name = "create_directory" ->
           NeutralTool(name, "Creates a new directory inside the workspace.",
               ObjectParams([path |-> StringParam("Relative path for the new directory.")],
                            <<"path">>))
      [] name = "execute_python" ->
           NeutralTool(name,
               "Executes a Python code snippet and returns its stdout/stderr output.",
               ObjectParams([code |-> StringParam("The Python source code to execute.")],
                            <<"code">>))
      [] name = "web_search" ->
           NeutralTool(name,
               "Searches the web for current information and returns top results with titles, URLs, and snippets.",
               ObjectParams([query |-> StringParam("The search query.")], <<"query">>))

\* the schemas of a list of tool names
ToolSchemas(names) == [i \in DOMAIN names |-> ToolSchema(names[i])]

\* Faulty variant of _build_openai_tools: the descriptions are left out
BuildOpenAIToolsWithoutDescription(tool_defs) ==
    [i \in DOMAIN tool_defs |->
        [type |-> "function", function |-> [name |-> tool_defs[i].function.name]]]

\* _build_openai_tools: the schemas as they are
_build_openai_tools(tool_defs) == tool_defs

\* Faulty variant of GeminiParamType: the neutral kind is translated
GeminiParamTypeOfKind(v) ==
    CASE DictGet(v, "type", "string") = "integer" -> "INTEGER"
      [] DictGet(v, "type", "string") = "boolean" -> "BOOLEAN"
      [] OTHER -> "STRING"

\* "type": "STRING" for every property (core.py:48)
GeminiParamType(v) == "STRING"

\* _build_gemini_tools: one functionDeclarations entry holding a declaration
\* for each schema
_build_gemini_tools(tool_defs) ==
    LET Declaration(tool) ==
            LET func == tool.function
                params == DictGet(func, "parameters", EmptyDict)
                properties == DictGet(params, "properties", EmptyDict)
            IN  [name |-> func.name,
                 description |-> func.description,
                 parameters |->
                    [type |-> "OBJECT",
                     properties |->
                        [k \in DOMAIN properties |->
                            [type |-> GeminiParamType(properties[k]),
                             description |-> DictGet(properties[k], "description", "")]],
                     required |-> DictGet(params, "required", <<>>)]]
    IN  <<[functionDeclarations |->
              [i \in DOMAIN tool_defs |-> Declaration(tool_defs[i])]]>>

KeyName(i) == "key" \o ToString(i)

\* API_KEYS with n keys
KeyPool(n) == [i \in 1..n |-> KeyName(i)]

\* Faulty variant of _next_key: the cursor is advanced before the key is read
NextKeyOffByOne(keys, idx) ==
    [key |-> keys[((idx + 1) % Len(keys)) + 1], _key_index |-> idx + 1]

\* Faulty variant of _next_key: the cursor is not advanced
NextKeyStuck(keys, idx) ==
    [key |-> keys[(idx % Len(keys)) + 1], _key_index |-> idx]

\* LLMKernel._next_key: the key handed out and the cursor afterwards
_next_key(keys, idx) ==
    [key |-> keys[(idx % Len(keys)) + 1], _key_index |-> idx + 1]

\* Faulty variant of _trim_history: self.history[:MAX_HISTORY], the oldest turns
TrimHistoryKeepsOldest(h) ==
    IF Len(h) > MAX_HISTORY THEN PySliceTo(h, MAX_HISTORY) ELSE h

\* LLMKernel._trim_history: self.history[-MAX_HISTORY:] when longer than MAX_HISTORY
_trim_history(h) ==
    IF Len(h) > MAX_HISTORY THEN PySliceFrom(h, 0 - MAX_HISTORY) ELSE h

\* The sleep after a 429 that is not the last attempt, in milliseconds
RetryDelayMs(total_keys, bo) ==
    IF total_keys > 1 THEN ROTATE_SLEEP_MS ELSE bo * 1000

\* Faulty variant of NextBackoff: backoff is never doubled
NextBackoffConstant(total_keys, bo) == bo

\* backoff after that sleep: doubled with a single key, untouched with several
NextBackoff(total_keys, bo) == IF total_keys > 1 THEN bo ELSE bo * 2

\* Faulty variant of IsErrorStatus: only the 4xx statuses end the call
IsClientErrorStatus(status) == status >= 400 /\ status < 500

\* `if resp.status_code >= 400: raise RuntimeError(...)` (core.py:151) and
\* resp.raise_for_status() (core.py:247), for a status that is not 429
IsErrorStatus(status) == status >= 400

\* Faulty variant of LastAttempt: the ceiling is taken one attempt late
LastAttemptOffByOne(a) == a = MAX_RETRIES + 1

\* `for attempt in range(1, MAX_RETRIES + 1)` ... `if attempt == MAX_RETRIES`
LastAttempt(a) == a = MAX_RETRIES

\* Faulty variant of MoreRounds: range(MAX_TOOL_ROUNDS + 1)
MoreRoundsOffByOne(r) == r <= MAX_TOOL_ROUNDS

\* `for _ in range(MAX_TOOL_ROUNDS)`: is there an iteration after iteration r
MoreRounds(r) == r < MAX_TOOL_ROUNDS

\* Faulty variant of HistoryAfterConversationAppend: messages = self.history,
\* without the copy
HistoryAliased(h, turn) == Append(h, turn)

\* messages / contents are copies (list(self.history)): appending turn to them
\* leaves self.history as it is
HistoryAfterConversationAppend(h, turn) == h

----------------------------------------------------------------------------
(* What the provider can answer *)

\* HTTP statuses: success, rate limit, another error
Statuses == {200, 429, 500}

\* The statuses a provider of behaviour e answers with
StatusesOf(e) == IF e = "rate_limited" THEN {429} ELSE Statuses

\* Pool sizes tried against a provider of any behaviour: one key, several keys
PoolSizes == {1, 3}

\* The model stops issuing HTTP attempts at this value of the cursor: MaxAttempts,
\* or two whole provider calls against the provider that only answers 429
AttemptCap(e) == IF e = "rate_limited" THEN 2 * MAX_RETRIES ELSE MaxAttempts

\* Tool invocations (neutral): args is a JSON object, malformed, or absent
INV_LIST == [id |-> "call_1", name |-> "list_directory", args |-> "object"]
INV_NOPE == [id |-> "call_2", name |-> "no_such_tool", args |-> "malformed"]
INV_EXEC == [id |-> "call_3", name |-> "execute_python", args |-> "absent"]

ToolCallLists == {<<INV_LIST>>, <<INV_NOPE, INV_LIST>>, <<INV_EXEC, INV_NOPE>>}

\* Response bodies (neutral): no result field, an empty result list, or one
\* result with a text and tool invocations
Bodies ==
    {[result |-> r, text |-> "", calls |-> <<>>] : r \in {"absent", "empty"}}
    \cup {[result |-> "present", text |-> t, calls |-> <<>>] : t \in {"", "hello"}}
    \cup {[result |-> "present", text |-> "", calls |-> c] : c \in ToolCallLists}

ARGS_JSON == "{\"path\": \".\"}"
BAD_JSON == "{\"path\": "
ARGS_OBJ == [path |-> "."]
\* Gemini sends args already parsed: malformed args are an object of the wrong keys
BAD_ARGS_OBJ == [unexpected |-> "."]

\* json.loads
json_loads(str) ==
    IF str = ARGS_JSON THEN [ok |-> TRUE, value |-> ARGS_OBJ]
    ELSE IF str = "{}" THEN [ok |-> TRUE, value |-> EmptyDict]
    ELSE [ok |-> FALSE, value |-> "JSONDecodeError"]

\* --- OpenAI-compatible wire format
GroqToolCall(inv) ==
    [id |-> inv.id, type |-> "function",
     function |-> IF inv.args = "absent" THEN [name |-> inv.name]
                  ELSE [name |-> inv.name,
                        arguments |-> IF inv.args = "object" THEN ARGS_JSON ELSE BAD_JSON]]

GroqMessage(body) ==
    IF body.calls = <<>>
    THEN [role |-> "assistant", content |-> body.text]
    ELSE [role |-> "assistant", content |-> body.text,
          tool_calls |-> [i \in DOMAIN body.calls |-> GroqToolCall(body.calls[i])]]

GroqData(body) ==
    CASE body.result = "absent" -> [id |-> "chatcmpl"]
      [] body.result = "empty" -> [id |-> "chatcmpl", choices |-> <<>>]
      [] OTHER -> [id |-> "chatcmpl", choices |-> <<[message |-> GroqMessage(body)]>>]

\* --- Gemini wire format (a functionCall carries the identifier of the call)
GeminiFunctionCallPart(inv) ==
    [functionCall |->
        IF inv.args = "absent" THEN [id |-> inv.id, name |-> inv.name]
        ELSE [id |-> inv.id, name |-> inv.name,
              args |-> IF inv.args = "object" THEN ARGS_OBJ ELSE BAD_ARGS_OBJ]]

GeminiParts(body) ==
    (IF body.text = "" THEN <<>> ELSE <<[text |-> body.text]>>)
    \o [i \in DOMAIN body.calls |-> GeminiFunctionCallPart(body.calls[i])]

GeminiData(body) ==
    CASE body.result = "absent" -> [usageMetadata |-> EmptyDict]
      [] body.result = "empty" -> [candidates |-> <<>>]
      [] OTHER -> [candidates |-> <<[content |-> [role |-> "model", parts |-> GeminiParts(body)]]>>]

----------------------------------------------------------------------------
(* LLMKernel: run, for both providers *)

UserTurn(p, user_intent) ==
    IF p = "groq" THEN [role |-> "user", content |-> user_intent]
    ELSE [role |-> "user", parts |-> <<[text |-> user_intent]>>]

SystemTurn == [role |-> "system", content |-> SYSTEM_PROMPT]

\* Faulty variant of Conversation: only the newest turn of the history is sent
ConversationOfLastTurn(p, h) ==
    IF p = "groq" THEN <<SystemTurn, h[Len(h)]>> ELSE <<h[Len(h)]>>

\* messages (core.py:166) / contents (core.py:258) built from the history
Conversation(p, h) == IF p = "groq" THEN <<SystemTurn>> \o h ELSE h

RECURSIVE JoinLines(_)
\* "\n".join(text_parts)
JoinLines(ts) ==
    IF ts = <<>> THEN ""
    ELSE IF Len(ts) = 1 THEN ts[1]
    ELSE ts[1] \o "\n" \o JoinLines(Tail(ts))

\* Faulty variant of OrSentinel: the text as it is
OrSentinelMissing(s) == s

\* `... or "[No response from kernel]"` (core.py:178, core.py:271)
OrSentinel(s) == IF s = "" THEN NO_RESPONSE ELSE s

HasFunctionCall(part) == "functionCall" \in DOMAIN part
HasText(part) == "text" \in DOMAIN part

\* The response of one provider call, read as _run_groq (core.py:171-184) and
\* _run_gemini (core.py:262-276) read it:
\*   kind "raise"   the parsing raised (value: the exception)
\*   kind "return"  run returns value; record says whether a turn is appended
\*                  to the history (and trimmed) first
\*   kind "tools"   tool calls to dispatch; turn is appended to the conversation
ReadGroq(data) ==
    LET choices == DictGet(data, "choices", <<EmptyDict>>)
    IN  IF choices = <<>>
        THEN [kind |-> "raise", value |-> "IndexError"]
        ELSE LET message == DictGet(choices[1], "message", EmptyDict)
                 no_tools == \/ "tool_calls" \notin DOMAIN message
                             \/ Len(message.tool_calls) = 0
                 content == DictGet(message, "content", "")
                 answer == OrSentinel(content)
             IN  IF no_tools
                 THEN [kind |-> "return", value |-> answer, record |-> TRUE,
                       turn |-> [role |-> "assistant", content |-> answer]]
                 ELSE [kind |-> "tools", turn |-> message,
                       tool_calls |-> message.tool_calls]

ReadGemini(data) ==
    LET candidates == DictGet(data, "candidates", <<>>)
    IN  IF candidates = <<>>
        THEN [kind |-> "return", value |-> NO_RESPONSE, record |-> FALSE,
              turn |-> EmptyDict]
        ELSE LET parts == DictGet(DictGet(candidates[1], "content", EmptyDict),
                                  "parts", <<>>)
                 function_calls == SelectSeq(parts, HasFunctionCall)
                 text_parts == SelectSeq(parts, HasText)
                 joined == JoinLines([i \in DOMAIN text_parts |-> text_parts[i].text])
                 answer == OrSentinel(joined)
             IN  IF function_calls = <<>>
                 THEN [kind |-> "return", value |-> answer, record |-> TRUE,
                       turn |-> [role |-> "model", parts |-> parts]]
                 ELSE [kind |-> "tools", turn |-> [role |-> "model", parts |-> parts],
                       tool_calls |-> function_calls]

ReadResponse(p, body) ==
    IF p = "groq" THEN ReadGroq(GroqData(body)) ELSE ReadGemini(GeminiData(body))

\* One tool call of the response, as the dispatch loop reads it
\* (core.py:188-194, core.py:280-282)
ToolCallName(p, tc) ==
    IF p = "groq" THEN DictGet(DictGet(tc, "function", EmptyDict), "name", "")
    ELSE tc.functionCall.name

ToolCallArgs(p, tc) ==
    IF p = "groq"
    THEN LET parsed == json_loads(DictGet(DictGet(tc, "function", EmptyDict),
                                          "arguments", "{}"))
         IN  IF parsed.ok THEN parsed.value ELSE EmptyDict
    ELSE DictGet(tc.functionCall, "args", EmptyDict)

\* The tool-result entry of one dispatch (core.py:201-206, core.py:288-293)
ToolResultEntry(p, tc, tool_name, result) ==
    IF p = "groq"
    THEN [role |-> "tool", tool_call_id |-> DictGet(tc, "id", ""),
          name |-> tool_name, content |-> result]
    ELSE [functionResponse |-> [name |-> tool_name, response |-> [result |-> result]]]

\* Faulty variant of AppendResult: the result is put in front
PrependResult(seq, entry) == <<entry>> \o seq

\* messages.append({... tool result ...}) (core.py:201) and
\* fn_response_parts.append({...}) (core.py:288)
AppendResult(seq, entry) == Append(seq, entry)

----------------------------------------------------------------------------
(* Spec: one LLMKernel *)

\* LLMKernel.__init__ with a non-empty API_KEYS
KernelScheduler ==
    register_driver(register_driver(register_driver(NewScheduler,
        FilesystemDriver), CodeExecutorDriver), WebSearchDriver)

\* self._tools, built from the schemas of the registered drivers (core.py:96-100)
KernelTools(p) ==
    LET openai_tools == ToolSchemas(get_all_tool_definitions(KernelScheduler._drivers))
    IN  IF p = "groq" THEN _build_openai_tools(openai_tools)
        ELSE _build_gemini_tools(openai_tools)

Init ==
    /\ provider \in {"groq", "gemini"}
    /\ \E n \in 1..MaxKeys :
          /\ api_keys = KeyPool(n)
          /\ env \in IF n \in PoolSizes THEN {"any", "rate_limited"} ELSE {"rate_limited"}
    /\ _key_index = 0
    /\ history = <<>>
    /\ _drivers = KernelScheduler._drivers
    /\ _tool_map = KernelScheduler._tool_map
    /\ _tools = KernelTools(provider)
    /\ response = NoResponse
    /\ pc = "idle" /\ messages = <<>> /\ round = 0 /\ attempt = 0 /\ backoff = 0
    /\ pending = <<>> /\ fn_response_parts = <<>>
    /\ ret = [kind |-> "none", value |-> "__init__"]
    /\ runs = 0 /\ calls = 0 /\ allTools = TRUE /\ hist0 = <<>>
    /\ keyLog = <<>> /\ statuses = <<>> /\ sleeps = <<>> /\ dispatched = <<>>
    /\ TruncateOff /\ DispatchOff
    /\ SchemasOff /\ FilesystemOff /\ ThreadsOff /\ KernelsOff /\ BridgeOff
    /\ LoopsOff

\* run is left: its locals are gone
LeaveRun(how, value) ==
    /\ pc' = "idle"
    /\ ret' = [kind |-> how, value |-> value]
    /\ messages' = <<>> /\ pending' = <<>> /\ fn_response_parts' = <<>>
    /\ round' = 0 /\ attempt' = 0 /\ backoff' = 0

\* _call_groq / _call_gemini is entered: core.py:115-116, core.py:214-215
EnterCall ==
    /\ pc' = "awaiting"
    /\ attempt' = 1
    /\ backoff' = INITIAL_BACKOFF
    /\ statuses' = <<>>
    /\ sleeps' = <<>>

\* run(user_intent) up to the first provider call
Run(user_intent) ==
    /\ pc = "idle"
    /\ _key_index < AttemptCap(env)
    /\ runs' = runs + 1
    /\ hist0' = history
    /\ history' = Append(history, UserTurn(provider, user_intent))
    /\ calls' = 0 /\ allTools' = TRUE /\ dispatched' = <<>>
    /\ response' = NoResponse
    /\ IF MAX_TOOL_ROUNDS > 0
       THEN /\ messages' = Conversation(provider, history')
            /\ round' = 1
            /\ pending' = <<>> /\ fn_response_parts' = <<>>
            /\ ret' = [kind |-> "none", value |-> "run"]
            /\ EnterCall
       ELSE /\ LeaveRun("return", MAX_ROUNDS_MSG)
            /\ UNCHANGED <<statuses, sleeps>>
    /\ UNCHANGED <<env, provider, api_keys, _key_index, _tools, keyLog,
                   schedvars, tvars, dvars, xvars>>

\* One HTTP attempt of the provider call and all that follows it up to the next
\* attempt, the first dispatch or the end of run.
Attempt(status, body) ==
    /\ pc = "awaiting"
    /\ _key_index < AttemptCap(env)
    /\ LET k == _next_key(api_keys, _key_index)
       IN  /\ _key_index' = k._key_index
           /\ keyLog' = Append(keyLog, k.key)
    /\ statuses' = Append(statuses, status)
    /\ IF status = 429
       THEN IF LastAttempt(attempt)
            THEN \* resp.raise_for_status()
                 /\ LeaveRun("raise", "HTTPError 429")
                 /\ UNCHANGED <<history, sleeps, calls, allTools, response>>
            ELSE /\ sleeps' = Append(sleeps, RetryDelayMs(Len(api_keys), backoff))
                 /\ backoff' = NextBackoff(Len(api_keys), backoff)
                 /\ attempt' = attempt + 1
                 /\ UNCHANGED <<history, pc, messages, round, pending,
                                fn_response_parts, ret, calls, allTools, response>>
       ELSE IF IsErrorStatus(status)
       THEN /\ LeaveRun("raise", IF provider = "groq" THEN "RuntimeError: Groq API error"
                                 ELSE "HTTPError")
            /\ UNCHANGED <<history, sleeps, calls, allTools, response>>
       ELSE LET r == ReadResponse(provider, body)
            IN  /\ calls' = calls + 1
                /\ response' = body
                /\ allTools' = (allTools /\ r.kind = "tools")
                /\ UNCHANGED sleeps
                /\ CASE r.kind = "raise" ->
                          /\ LeaveRun("raise", r.value)
                          /\ UNCHANGED history
                     [] r.kind = "return" ->
                          /\ history' = IF r.record
                                        THEN _trim_history(Append(history, r.turn))
                                        ELSE history
                          /\ LeaveRun("return", r.value)
                     [] r.kind = "tools" ->
                          /\ messages' = Append(messages, r.turn)
                          /\ history' = HistoryAfterConversationAppend(history, r.turn)
                          /\ pending' = r.tool_calls
                          /\ fn_response_parts' = <<>>
                          /\ pc' = "dispatching"
                          /\ UNCHANGED <<round, attempt, backoff, ret>>
    /\ UNCHANGED <<env, provider, api_keys, _tools, runs, hist0, dispatched,
                   schedvars, tvars, dvars, xvars>>

\* Faulty variant of RoundEnds: the round is ended inside the loop, after the
\* first tool call
RoundEndsAfterFirst(pend) == TRUE

\* `for tc in tool_calls` (core.py:187, core.py:279) has no tool call left
\* after the one at the head of pend
RoundEnds(pend) == Len(pend) = 1

\* One iteration of the dispatch loop (core.py:187-206, core.py:279-293); after
\* the last tool call of the response, the end of the round: the next provider
\* call, or the return after the last round.
DispatchTool(execute) ==
    /\ pc = "dispatching"
    /\ pending # <<>>
    /\ LET tc == Head(pending)
           tool_name == ToolCallName(provider, tc)
           tool_args == ToolCallArgs(provider, tc)
           d == dispatch(_tool_map, tool_name, tool_args, execute)
           result == _truncate(d.value, MAX_RESULT_LEN)
           entry == ToolResultEntry(provider, tc, tool_name, result)
           parts == AppendResult(fn_response_parts, entry)
           conv == IF provider = "groq" THEN AppendResult(messages, entry)
                   ELSE IF Len(pending) = 1
                        THEN Append(messages, [role |-> "user", parts |-> parts])
                        ELSE messages
       IN  /\ dispatched' = Append(dispatched,
                                   [name |-> tool_name, executed |-> d.executed])
           /\ IF d.raised
              THEN /\ LeaveRun("raise", d.value)
                   /\ UNCHANGED <<history, statuses, sleeps>>
              ELSE /\ history' = HistoryAfterConversationAppend(history, entry)
                   /\ IF ~RoundEnds(pending)
                      THEN /\ pending' = Tail(pending)
                           /\ messages' = conv
                           /\ fn_response_parts' = IF provider = "groq" THEN <<>> ELSE parts
                           /\ UNCHANGED <<pc, round, attempt, backoff, ret, statuses, sleeps>>
                      ELSE IF MoreRounds(round)
                      THEN /\ pending' = <<>>
                           /\ messages' = conv
                           /\ fn_response_parts' = <<>>
                           /\ round' = round + 1
                           /\ EnterCall
                           /\ UNCHANGED ret
                      ELSE /\ LeaveRun("return", MAX_ROUNDS_MSG)
                           /\ UNCHANGED <<statuses, sleeps>>
    /\ UNCHANGED <<env, provider, api_keys, _key_index, _tools, keyLog, runs, calls,
                   allTools, response, hist0, schedvars, tvars, dvars, xvars>>

\* Faulty variant of CursorAfterClear: clear_history rewinds the round-robin
CursorResetOnClear(idx) == 0

\* clear_history does not assign self._key_index
CursorAfterClear(idx) == idx

\* LLMKernel.clear_history
ClearHistory ==
    /\ pc = "idle"
    /\ history' = <<>>
    /\ _key_index' = CursorAfterClear(_key_index)
    /\ ret' = [kind |-> "none", value |-> "clear_history"]
    \* what was observed of the last run is dropped
    /\ calls' = 0 /\ allTools' = TRUE /\ hist0' = <<>> /\ response' = NoResponse
    /\ statuses' = <<>> /\ sleeps' = <<>> /\ dispatched' = <<>>
    /\ UNCHANGED <<env, provider, api_keys, _tools, pc, messages, round, attempt,
                   backoff, pending, fn_response_parts, runs, keyLog,
                   schedvars, tvars, dvars, xvars>>

\* The intent of the n-th run
Intent(n) == "intent " \o ToString(n)

Next ==
    \/ Run(Intent(runs + 1))
    \/ \E status \in StatusesOf(env), body \in Bodies : Attempt(status, body)
    \/ \E execute \in ExecOutcomes : DispatchTool(execute)
    \/ ClearHistory

Spec == Init /\ [][Next]_vars

----------------------------------------------------------------------------
(* SpecSchemas: the two schema builders applied to lists of neutral schemas *)

\* Schemas a driver could declare, next to those the drivers do declare: no
\* parameters at all, a parameter of another kind without a description, a
\* parameter of another kind and no required list
TOOL_PING == [type |-> "function",
              function |-> [name |-> "ping", description |-> "Answers pong."]]
TOOL_WAIT == NeutralTool("wait", "Waits.",
                 ObjectParams([seconds |-> [type |-> "integer"]], <<"seconds">>))
TOOL_FLAG == NeutralTool("set_flag", "Sets a flag.",
                 [type |-> "object",
                  properties |-> [on |-> [type |-> "boolean",
                                          description |-> "The value of the flag."],
                                  name |-> StringParam("The flag.")]])

SchemaPool ==
    {ToolSchema("list_directory"), ToolSchema("read_file"), ToolSchema("write_file"),
     ToolSchema("execute_python"), TOOL_PING, TOOL_WAIT, TOOL_FLAG}

SchemasInit ==
    /\ neutral_tools \in UNION {[1..n -> SchemaPool] : n \in 0..MaxTools}
    /\ built = [done |-> FALSE]
    /\ KernelOff /\ _drivers = <<>> /\ _tool_map = <<>>
    /\ TruncateOff /\ DispatchOff /\ FilesystemOff /\ ThreadsOff /\ KernelsOff /\ BridgeOff
    /\ LoopsOff

\* both builders are called with the list, as __init__ calls one of them
BuildTools ==
    /\ ~built.done
    /\ built' = [done |-> TRUE,
                 openai |-> _build_openai_tools(neutral_tools),
                 gemini |-> _build_gemini_tools(neutral_tools)]
    /\ UNCHANGED <<neutral_tools, kvars, schedvars, tvars, dvars, fvars, cvars, ivars, bvars, lvars>>

SchemasNext == BuildTools

SpecSchemas == SchemasInit /\ [][SchemasNext]_vars

\* tool["function"], as register_driver and _build_gemini_tools read a schema
FunctionOf(tool) == DictGet(tool, "function", EmptyDict)

PropertiesOf(tool) ==
    DictGet(DictGet(tool.function, "parameters", EmptyDict), "properties", EmptyDict)

\* C27: the Gemini translation yields one declaration for each neutral tool,
\* in the same order, with the tool's name, description, parameter names,
\* parameter descriptions (none reads as the empty text) and required list
\* (none reads as the empty list), every parameter typed STRING; the list
\* handed in is left as it was.
C27_GeminiDeclarationPerTool ==
    /\ [](built.done =>
            /\ Len(built.gemini) = 1
            /\ DOMAIN built.gemini[1] = {"functionDeclarations"}
            /\ LET decls == built.gemini[1].functionDeclarations
               IN  /\ Len(decls) = Len(neutral_tools)
                   /\ \A i \in DOMAIN neutral_tools :
                         LET tool == neutral_tools[i]
                             props == PropertiesOf(tool)
                         IN  /\ decls[i].name = tool.function.name
                             /\ decls[i].description = tool.function.description
                             /\ decls[i].parameters.type = "OBJECT"
                             /\ DOMAIN decls[i].parameters.properties = DOMAIN props
                             /\ \A k \in DOMAIN props :
                                   /\ decls[i].parameters.properties[k].type = "STRING"
                                   /\ decls[i].parameters.properties[k].description
                                         = DictGet(props[k], "description", "")
                             /\ decls[i].parameters.required
                                   = DictGet(DictGet(tool.function, "parameters", EmptyDict),
                                             "required", <<>>))
    /\ [][neutral_tools' = neutral_tools]_vars

\* a tool with a boolean parameter was translated next to one without
\* parameters
C27_Witness ==
    /\ built.done
    /\ neutral_tools = <<TOOL_FLAG, TOOL_PING>>
    /\ built.gemini[1].functionDeclarations[1].parameters.properties.on.type = "STRING"
    /\ built.gemini[1].functionDeclarations[2].parameters.properties = EmptyDict

----------------------------------------------------------------------------
(* SpecBoot: the configuration is read and LLMKernel() is called once, as     *)
(* main does; the kernel that results is then used against a provider that  *)
(* answers 429 to every attempt                                              *)

\* the fields `_raw_keys.split(",")` can give
KeyFields == {"", " key1 ", "key2"}

\* k.strip()
Strip(k) == IF k = " key1 " THEN "key1" ELSE k

\* config.py:26: [k.strip() for k in _raw_keys.split(",") if k.strip()]
ParseKeys(fields) ==
    LET kept == SelectSeq(fields, LAMBDA k : Strip(k) # "")
    IN  [i \in DOMAIN kept |-> Strip(kept[i])]

RawKeys == UNION {[1..n -> KeyFields] : n \in 1..MaxKeyFields}

\* Faulty variant of NoApiKeys: the check is missing
NoApiKeysUnchecked(keys) == FALSE

\* `if not API_KEYS`
NoApiKeys(keys) == keys = <<>>

BootInit ==
    /\ KernelOff /\ _drivers = <<>> /\ _tool_map = <<>>
    /\ TruncateOff /\ DispatchOff
    /\ SchemasOff /\ FilesystemOff /\ ThreadsOff /\ KernelsOff /\ BridgeOff
    /\ LoopsOff

\* LLMKernel.__init__, with API_KEYS read from the fields and LLM_PROVIDER = p
Construct(fields, p) ==
    /\ pc = "off" /\ ret.kind = "none"
    /\ LET API_KEYS == ParseKeys(fields)
       IN  IF NoApiKeys(API_KEYS)
           THEN /\ ret' = [kind |-> "raise", value |-> "RuntimeError: No API key set!"]
                /\ UNCHANGED <<env, provider, api_keys, _key_index, history, _tools, pc,
                               schedvars>>
           ELSE /\ api_keys' = API_KEYS
                /\ _key_index' = 0
                /\ provider' = p
                /\ env' = "rate_limited"
                /\ _drivers' = KernelScheduler._drivers
                /\ _tool_map' = KernelScheduler._tool_map
                /\ _tools' = KernelTools(p)
                /\ history' = <<>>
                /\ pc' = "idle"
                /\ ret' = [kind |-> "none", value |-> "__init__"]
    /\ UNCHANGED <<messages, round, attempt, backoff, pending, fn_response_parts,
                   response, runs, calls, allTools, hist0, keyLog, statuses, sleeps,
                   dispatched, tvars, dvars, xvars>>

BootNext ==
    \/ \E fields \in RawKeys, p \in {"groq", "gemini"} : Construct(fields, p)
    \/ Run(Intent(runs + 1))
    \/ Attempt(429, NoResponse)
    \/ ClearHistory

SpecBoot == BootInit /\ [][BootNext]_vars

\* LLMKernel() raised for want of a key
BootFailed == ret = [kind |-> "raise", value |-> "RuntimeError: No API key set!"]

\* C22: LLMKernel() with an empty key pool raises before a driver is
\* registered or a request made; a kernel that exists has a key, so every
\* attempt found a key to take.
C22_NoKernelWithoutKeys ==
    /\ pc # "off" => api_keys # <<>>
    /\ keyLog # <<>> => api_keys # <<>>
    /\ BootFailed =>
          /\ pc = "off" /\ api_keys = <<>>
          /\ _drivers = <<>> /\ _tool_map = <<>> /\ _tools = <<>>
          /\ keyLog = <<>> /\ _key_index = 0 /\ runs = 0

C22_Witness == BootFailed /\ pc = "off" /\ _drivers = <<>>

----------------------------------------------------------------------------
(* Properties of Spec *)

\* run has returned or raised, and nothing was called since
RunEnded == pc = "idle" /\ ret.kind \in {"return", "raise"}

\* run raised because a provider call ended in terminal failure
ProviderFailure ==
    /\ ret.kind = "raise"
    /\ ret.value \in {"HTTPError 429", "HTTPError", "RuntimeError: Groq API error"}

\* every attempt of the provider call under way (or the last one) was answered 429
AllRateLimited ==
    /\ statuses # <<>>
    /\ \A i \in DOMAIN statuses : statuses[i] = 429

\* the keys of the attempts of that provider call
KeysOfCall == {keyLog[i] : i \in (Len(keyLog) - Len(statuses) + 1)..Len(keyLog)}

\* C1: after run returns, the history holds at most MAX_HISTORY turns.
C1_HistoryBoundedAfterReturn ==
    (pc = "idle" /\ ret.kind = "return") => Len(history) <= MAX_HISTORY

\* C2: a run whose every provider response requests a tool returns the
\* maximum-rounds message after exactly MAX_TOOL_ROUNDS provider calls that
\* returned a response, and never makes more; the message is returned in no
\* other way.
C2_MaxRoundsAfterExactlyMaxToolRounds ==
    /\ calls <= MAX_TOOL_ROUNDS
    /\ (RunEnded /\ allTools /\ ~ProviderFailure)
          => (ret = [kind |-> "return", value |-> MAX_ROUNDS_MSG]
              /\ calls = MAX_TOOL_ROUNDS)
    /\ (RunEnded /\ ret.value = MAX_ROUNDS_MSG)
          => (ret.kind = "return" /\ allTools /\ calls = MAX_TOOL_ROUNDS)

C2_Witness ==
    /\ RunEnded /\ allTools
    /\ ret = [kind |-> "return", value |-> MAX_ROUNDS_MSG]
    /\ calls = MAX_TOOL_ROUNDS
    /\ Len(dispatched) >= MAX_TOOL_ROUNDS

\* C3: when run raises because a provider call failed terminally, the history
\* is the history before the run plus the new user turn and nothing else.
C3_FailedRunKeepsOnlyUserTurn ==
    (RunEnded /\ ProviderFailure)
        => history = Append(hist0, UserTurn(provider, Intent(runs)))

\* the failure is a retry ceiling reached in a later round, after tools ran
C3_Witness ==
    /\ RunEnded /\ ProviderFailure
    /\ ret.value = "HTTPError 429"
    /\ calls >= 1 /\ dispatched # <<>>
    /\ Len(statuses) = MAX_RETRIES

\* C4: with one key, a provider call answered 429 on every attempt sleeps
\* INITIAL_BACKOFF, 2*INITIAL_BACKOFF, ... between attempts (nothing after the
\* last), makes exactly MAX_RETRIES attempts and then raises; each provider call
\* starts again from INITIAL_BACKOFF.
C4_SingleKeyBackoffDoubles ==
    (Len(api_keys) = 1 /\ AllRateLimited) =>
        /\ Len(statuses) <= MAX_RETRIES
        /\ Len(sleeps) = Min(Len(statuses), MAX_RETRIES - 1)
        /\ \A i \in DOMAIN sleeps : sleeps[i] = INITIAL_BACKOFF * Pow2(i - 1) * 1000
        /\ Len(statuses) = MAX_RETRIES
              => (pc = "idle" /\ ret = [kind |-> "raise", value |-> "HTTPError 429"])
        /\ Len(statuses) < MAX_RETRIES
              => (pc = "awaiting" /\ attempt = Len(statuses) + 1)

\* a second provider call has run into the ceiling as well
C4_Witness ==
    /\ Len(api_keys) = 1 /\ AllRateLimited
    /\ Len(statuses) = MAX_RETRIES
    /\ Len(sleeps) = MAX_RETRIES - 1
    /\ runs >= 2
    /\ ret = [kind |-> "raise", value |-> "HTTPError 429"]

\* C5 (as claimed): with any pool of N > 1 keys, a provider call that ends at
\* the retry ceiling has used every key of the pool.
C5_EveryKeyUsedBeforeCeiling ==
    (Len(api_keys) > 1 /\ RunEnded /\ ret.value = "HTTPError 429")
        => Range(api_keys) \subseteq KeysOfCall

\* C5 (amended): with 1 < N <= MAX_RETRIES keys, a provider call that ends at
\* the retry ceiling has used every key of the pool; with N > MAX_RETRIES it
\* has used MAX_RETRIES different keys.
C5_PoolWithinCeilingFullyRotated ==
    (Len(api_keys) > 1 /\ RunEnded /\ ret.value = "HTTPError 429")
        => IF Len(api_keys) <= MAX_RETRIES
           THEN Range(api_keys) \subseteq KeysOfCall
           ELSE Cardinality(KeysOfCall) = MAX_RETRIES

C5_Witness ==
    /\ Len(api_keys) = MAX_RETRIES
    /\ RunEnded /\ ret.value = "HTTPError 429"
    /\ AllRateLimited

\* C6: the j-th HTTP attempt of the kernel's lifetime (from 0) uses key
\* j mod N, the cursor counts the attempts made and is never reset, and the
\* pool keeps its keys.
C6_RoundRobinOverLifetime ==
    /\ _key_index = Len(keyLog)
    /\ \A j \in 0..(Len(keyLog) - 1) :
          keyLog[j + 1] = api_keys[(j % Len(api_keys)) + 1]
    /\ api_keys = KeyPool(Len(api_keys))

\* the cursor has wrapped and history was cleared after a run
C6_Witness ==
    /\ Len(api_keys) > 1
    /\ _key_index > Len(api_keys)
    /\ runs >= 2
    /\ ret.value = "clear_history"

\* run has returned, and the last provider response is what made it return
ReturnedOn(result) ==
    /\ RunEnded /\ ret.kind = "return"
    /\ response.result = result /\ response.calls = <<>>

\* C12: a provider response without a result (choices / candidates absent or
\* an empty list) makes run return the sentinel no-response text; run does not
\* raise.
C12_NoResultGivesSentinel ==
    (RunEnded /\ response.result \in {"absent", "empty"})
        => ret = [kind |-> "return", value |-> NO_RESPONSE]

\* C13: run never returns the empty string, and a final response whose text is
\* empty or missing makes run return the sentinel no-response text.
C13_NeverReturnsEmptyString ==
    /\ (RunEnded /\ ret.kind = "return") => ret.value # ""
    /\ (ReturnedOn("present") /\ response.text = "") => ret.value = NO_RESPONSE

\* a final response with no text, received after a tool round
C13_Witness ==
    /\ ReturnedOn("present") /\ response.text = ""
    /\ ret.value = NO_RESPONSE
    /\ calls >= 2 /\ dispatched # <<>>

\* the text of a turn: its content (OpenAI-style) or its text parts joined
TurnText(turn) ==
    IF "content" \in DOMAIN turn THEN turn.content
    ELSE LET text_parts == SelectSeq(turn.parts, HasText)
         IN  JoinLines([i \in DOMAIN text_parts |-> text_parts[i].text])

\* the turn of the assistant saying t, in the provider's format
AssistantTurn(p, t) ==
    IF p = "groq" THEN [role |-> "assistant", content |-> t]
    ELSE [role |-> "model", parts |-> <<[text |-> t]>>]

\* C14: when run returns a text result (an answer of the provider or the
\* sentinel), the last turn of the history is an assistant turn whose content
\* is the text returned.
C14_ReturnedTextIsAssistantTurn ==
    (RunEnded /\ ret.kind = "return" /\ ret.value # MAX_ROUNDS_MSG) =>
        /\ history # <<>>
        /\ history[Len(history)].role \in {"assistant", "model"}
        /\ TurnText(history[Len(history)]) = ret.value

\* run has returned on a final response that carries a text
ProviderText == ReturnedOn("present") /\ response.text # ""

\* C15: a run that ends with a text of the provider returns that text, and its
\* history is the history before it plus one user turn and one assistant turn,
\* trimmed, whatever tool rounds came before; two turns when it started empty.
C15_OneUserOneAssistantTurn ==
    ProviderText =>
        /\ ret.value = response.text
        /\ history = _trim_history(hist0 \o <<UserTurn(provider, Intent(runs)),
                                              AssistantTurn(provider, response.text)>>)
        /\ hist0 = <<>> => Len(history) = 2

\* empty history, a tool round with dispatches, then the text
C15_Witness ==
    /\ ProviderText /\ ret.value = "hello"
    /\ hist0 = <<>> /\ Len(history) = 2
    /\ calls >= 2 /\ dispatched # <<>>

\* a turn that requests tools or carries tool results
IsToolTurn(turn) ==
    \/ "tool_calls" \in DOMAIN turn
    \/ turn.role = "tool"
    \/ /\ "parts" \in DOMAIN turn
       /\ \E j \in DOMAIN turn.parts :
             \/ HasFunctionCall(turn.parts[j])
             \/ "functionResponse" \in DOMAIN turn.parts[j]

ToolTurnsAfter(p, rounds, results) ==
    IF p = "groq" THEN rounds + results ELSE 2 * rounds

Answered ==
    IF pc = "dispatching" THEN Len(response.calls) - Len(pending)
    ELSE Len(response.calls)

\* the tool-result entries the conversation of the run holds for the last
\* response, in the order they lie there
PlacedResults ==
    IF provider = "groq"
    THEN [i \in 1..Answered |-> messages[Len(messages) - Answered + i]]
    ELSE IF pc = "dispatching" THEN fn_response_parts
    ELSE DictGet(messages[Len(messages)], "parts", <<>>)

\* the tool a tool-result entry names
ResultName(entry) ==
    IF "functionResponse" \in DOMAIN entry THEN entry.functionResponse.name
    ELSE DictGet(entry, "name", None)

\* C17: the invocations of one response are dispatched one after the other in
\* the order the provider listed them, and their results lie in the
\* conversation in that order: after k dispatches, the k last dispatches and
\* the k results placed are those of the first k invocations listed, and the
\* invocations still to dispatch are the rest of the list, in order.
C17_DispatchedInListedOrder ==
    (response.calls # <<>> /\ pc \in {"awaiting", "dispatching"}) =>
        LET n == Len(response.calls)
            k == Answered
            listed == ReadResponse(provider, response).tool_calls
        IN  /\ k \in 0..n /\ Len(dispatched) >= k /\ Len(messages) >= k
            /\ \A i \in 1..k :
                  dispatched[Len(dispatched) - k + i].name = response.calls[i].name
            /\ Len(PlacedResults) = k
            /\ \A i \in 1..k : ResultName(PlacedResults[i]) = response.calls[i].name
            /\ pc = "dispatching" => pending = SubSeq(listed, k + 1, n)
            /\ pc = "awaiting" => k = n

\* a response listed two different tools and both were answered
C17_Witness ==
    /\ pc = "awaiting" /\ round = 2
    /\ Len(response.calls) = 2
    /\ response.calls[1].name # response.calls[2].name
    /\ Len(PlacedResults) = 2
    /\ ResultName(PlacedResults[1]) = response.calls[1].name
    /\ ResultName(PlacedResults[2]) = response.calls[2].name

\* the identifier of the invocation a tool-result entry says it answers
ResultId(entry) ==
    IF "functionResponse" \in DOMAIN entry
    THEN DictGet(entry.functionResponse, "id", None)
    ELSE DictGet(entry, "tool_call_id", None)

\* C18: in the conversation the next provider call sends, every invocation of
\* the response is answered by one tool result, which carries the identifier
\* of that invocation, whatever the dispatch did.
C18_EveryInvocationAnsweredWithItsId ==
    (response.calls # <<>> /\ pc = "awaiting") =>
        /\ Len(PlacedResults) = Len(response.calls)
        /\ \A i \in DOMAIN response.calls :
              ResultId(PlacedResults[i]) = response.calls[i].id

\* run has returned the maximum-rounds message, and nothing was called since
MaxRoundsReturned == RunEnded /\ ret = [kind |-> "return", value |-> MAX_ROUNDS_MSG]

\* the step is a call of run
RunCalled == runs' = runs + 1

\* C19: when run has returned the maximum-rounds message the kernel is idle
\* and the history is the history before that run, in order, followed by the
\* user turn of that run; a run called next goes to its first provider call
\* with a conversation made of those turns, that user turn and its own.
C19_HistoryUsableAfterMaxRounds ==
    /\ [](MaxRoundsReturned =>
            /\ pc = "idle"
            /\ history = Append(hist0, UserTurn(provider, Intent(runs))))
    /\ [][(MaxRoundsReturned /\ RunCalled) =>
            /\ pc' = "awaiting" /\ round' = 1 /\ attempt' = 1
            /\ history' = hist0 \o <<UserTurn(provider, Intent(runs)),
                                      UserTurn(provider, Intent(runs + 1))>>
            /\ messages' = (IF provider = "groq" THEN <<SystemTurn>> ELSE <<>>)
                            \o history']_vars

\* the maximum-rounds message was returned by a run that found earlier turns
\* in the history, and a next run can be called
C19_Witness ==
    /\ MaxRoundsReturned
    /\ Len(hist0) >= 2
    /\ runs >= 2
    /\ _key_index < AttemptCap(env)

\* the step is a call of clear_history
ClearCalled == ret'.value = "clear_history"

\* C20: clear_history leaves the history empty and the key-pool cursor, the
\* key pool, the provider tool schemas, the registry and the provider as they
\* were, so the key of the next attempt is the one it would have been.
C20_ClearHistoryOnlyClearsHistory ==
    [][ClearCalled =>
          /\ history' = <<>>
          /\ UNCHANGED <<_key_index, api_keys, _tools, _drivers, _tool_map, provider, pc>>
          /\ api_keys'[(_key_index' % Len(api_keys')) + 1]
                = api_keys[(_key_index % Len(api_keys)) + 1]]_vars

\* history was cleared in the middle of a rotation through several keys
C20_Witness ==
    /\ ret.value = "clear_history"
    /\ history = <<>>
    /\ runs >= 1
    /\ Len(api_keys) > 1
    /\ _key_index % Len(api_keys) # 0

\* a status that is an error and not the rate limit
OtherError(status) == status >= 400 /\ status # 429

\* run raised the error of a provider call that was answered such a status
ErrorStatusRaised ==
    /\ RunEnded /\ ret.kind = "raise"
    /\ ret.value = IF provider = "groq" THEN "RuntimeError: Groq API error"
                   ELSE "HTTPError"

\* C21: an error status other than 429 ends the provider call at once with a
\* raised error: it is the last attempt of the call, only the 429 answers
\* before it were followed by a delay, and the cursor has advanced by the
\* attempts made.
C21_OtherErrorStatusIsTerminal ==
    /\ \A i \in DOMAIN statuses :
          OtherError(statuses[i]) => (i = Len(statuses) /\ ErrorStatusRaised)
    /\ ErrorStatusRaised =>
          /\ statuses # <<>> /\ OtherError(statuses[Len(statuses)])
          /\ Len(sleeps) = Len(statuses) - 1
          /\ _key_index = Len(keyLog) /\ Len(keyLog) >= Len(statuses)

\* the error status came after rate-limited attempts of the same call
C21_Witness ==
    /\ ErrorStatusRaised
    /\ Len(statuses) >= 3
    /\ statuses[Len(statuses)] = 500
    /\ Len(sleeps) = Len(statuses) - 1

\* C23: run raises only when a provider call ended in terminal failure; every
\* other condition ends in a returned text or the next round.
C23_RaisesOnlyOnProviderFailure ==
    (RunEnded /\ ret.kind = "raise") => ProviderFailure

----------------------------------------------------------------------------
(* Properties of SpecTruncate *)

\* C7: a text longer than max_len is truncated to at most max_len characters.
C7_TruncatedWithinLimit ==
    (truncated.done /\ Len(text) > max_len) => Len(truncated.value) <= max_len

\* C8: a text longer than max_len comes back as its first max_len // 2
\* characters, the marker, and its last max_len // 2 characters, the two parts
\* together shorter than the text; a text within max_len comes back unchanged.
C8_PrefixMarkerSuffix ==
    truncated.done =>
        IF Len(text) > max_len
        THEN LET half == max_len \div 2
             IN  /\ truncated.value =
                        SubSeq(text, 1, half) \o TRUNCATION_MARKER
                        \o SubSeq(text, Len(text) - half + 1, Len(text))
                 /\ 2 * half < Len(text)
        ELSE truncated.value = text

----------------------------------------------------------------------------
(* Properties of SpecScheduler *)

\* the tool names the registered drivers declare
DeclaredTools == UNION {Range(_drivers[i].tools) : i \in DOMAIN _drivers}

\* C9: dispatch of a tool no registered driver declares returns the tagged
\* unknown-tool string naming the tool, calls no driver and does not raise.
C9_UnknownToolTagged ==
    (d_request.op = "dispatch" /\ d_request.tool_name \notin DeclaredTools) =>
        /\ ~d_result.raised
        /\ d_result.value = "(x) Unknown tool: " \o d_request.tool_name
        /\ d_result.executed = <<>>

C9_Witness ==
    /\ d_request.op = "dispatch"
    /\ d_request.tool_name \notin DeclaredTools
    /\ Len(_drivers) >= 2
    /\ d_result.op = "dispatch"

\* C10: when the owning driver's execute raises, dispatch returns the tagged
\* driver-error string naming the tool, does not raise, and the tool map is as
\* it was before the call.
C10_DriverErrorTagged ==
    (/\ d_request.op = "dispatch"
     /\ d_request.tool_name \in DeclaredTools
     /\ d_request.execute.kind = "raise") =>
        /\ ~d_result.raised
        /\ d_result.value =
              "(x) Driver error in '" \o d_request.tool_name \o "': "
              \o d_request.execute.exc
        /\ Len(d_result.executed) = 1
        /\ _tool_map = d_request.tool_map

C10_Witness ==
    /\ d_request.op = "dispatch"
    /\ d_request.tool_name \in DeclaredTools
    /\ d_request.execute.kind = "raise"
    /\ d_result.op = "dispatch"

RECURSIVE ToolsBefore(_)
\* the number of schemas the drivers registered before the i-th declare
ToolsBefore(i) ==
    IF i <= 1 THEN 0 ELSE ToolsBefore(i - 1) + Len(_drivers[i - 1].tools)

\* C24: get_all_tool_definitions returns the schemas of the registered
\* drivers, the drivers in registration order and each driver's schemas in
\* the order it declares them, and nothing else; the registry is as it was.
C24_SchemasInRegistrationOrder ==
    d_request.op = "get_all_tool_definitions" =>
        /\ Len(d_result.tools) = ToolsBefore(Len(_drivers) + 1)
        /\ \A i \in DOMAIN _drivers : \A j \in DOMAIN _drivers[i].tools :
              d_result.tools[ToolsBefore(i) + j] = _drivers[i].tools[j]
        /\ _drivers = d_request.drivers
        /\ _tool_map = d_request.tool_map

\* the schemas of several drivers, not all the same driver
C24_Witness ==
    /\ d_request.op = "get_all_tool_definitions"
    /\ d_result.op = "get_all_tool_definitions"
    /\ Len(_drivers) >= 2
    /\ _drivers[1].id # _drivers[Len(_drivers)].id
    /\ Len(d_result.tools) >= 3

\* C25: the schema list get_all_tool_definitions returns holds no two schemas
\* of the same name, whatever drivers were registered.
C25_SchemaNamesUnique ==
    d_request.op = "get_all_tool_definitions" =>
        \A i, j \in DOMAIN d_result.tools :
            i # j => d_result.tools[i] # d_result.tools[j]

\* the registrations, in order, of the drivers that declare tool_name
Declaring(tool_name) ==
    {i \in DOMAIN _drivers : tool_name \in Range(_drivers[i].tools)}

\* the index of the most recent registration that declares tool_name
LastDeclaring(tool_name) ==
    CHOOSE i \in Declaring(tool_name) : \A j \in Declaring(tool_name) : j <= i

\* C11: dispatch of a tool name that registered drivers declare calls the
\* driver registered last among those that declare it, and only that driver,
\* whether it returns or raises.
C11_RoutedToMostRecentDriver ==
    (d_request.op = "dispatch" /\ d_request.tool_name \in DeclaredTools) =>
        d_result.executed = <<_drivers[LastDeclaring(d_request.tool_name)].id>>

\* the tool is declared by two different registered drivers, the later of
\* which is not the last driver registered
C11_Witness ==
    /\ d_request.op = "dispatch" /\ d_result.op = "dispatch"
    /\ d_request.tool_name = "beta"
    /\ \E i, j \in Declaring("beta") : _drivers[i].id # _drivers[j].id
    /\ LastDeclaring("beta") < Len(_drivers)
    /\ d_result.executed = <<_drivers[LastDeclaring("beta")].id>>

----------------------------------------------------------------------------
(* SpecKernels: two LLMKernel instances in one process. Attributes hold
   references into a heap of objects, so that two attributes naming the same
   list would show; every call is taken whole, the program has one thread. *)

\* the instances the process builds
KernelIds == {1, 2}

\* config.API_KEYS, the module-level list every instance's api_keys names
API_KEYS_REF == 1

ListObject(items) == [kind |-> "list", items |-> items]

SchedulerObject(sched) ==
    [kind |-> "Scheduler", _drivers |-> sched._drivers, _tool_map |-> sched._tool_map]

\* a cell no attribute refers to any more
Garbage == [kind |-> "garbage"]

\* the cells some attribute of some instance refers to, and the module-level list
Referenced(ks) ==
    {API_KEYS_REF} \cup UNION {{ks[i].api_keys, ks[i].scheduler, ks[i].history} :
                                i \in DOMAIN ks}

\* a new object: in a cell of its own (a collected one when there is one)
Alloc(h, obj) ==
    LET free == {r \in DOMAIN h : h[r] = Garbage}
    IN  IF free = {}
        THEN [ref |-> Len(h) + 1, heap |-> Append(h, obj)]
        ELSE LET r == CHOOSE x \in free : \A y \in free : x <= y
             IN  [ref |-> r, heap |-> [h EXCEPT ![r] = obj]]

\* cells nothing refers to are collected
Collect(h, ks) == [r \in DOMAIN h |-> IF r \in Referenced(ks) THEN h[r] ELSE Garbage]

\* Faulty variant of HistoryCell: one list, made once, serves every instance
ClassLevelHistoryCell(ks, fresh) == IF ks = <<>> THEN fresh ELSE ks[1].history

\* self.history = []: the list this instance's history names (core.py:103)
HistoryCell(ks, fresh) == fresh

\* n calls of _next_key in a row
RECURSIVE CursorAfter(_, _, _)
CursorAfter(keys, idx, n) ==
    IF n = 0 THEN idx ELSE CursorAfter(keys, _next_key(keys, idx)._key_index, n - 1)

\* what one instance looks like from outside: its history, cursor and registry
KernelView(j) ==
    [history |-> heap[kernels[j].history].items,
     _key_index |-> kernels[j]._key_index,
     registry |-> [_drivers |-> heap[kernels[j].scheduler]._drivers,
                   _tool_map |-> heap[kernels[j].scheduler]._tool_map]]

KernelsInit ==
    /\ kernels = <<>>
    /\ heap = <<ListObject(ParseKeys(<<" key1 ", "key2">>))>>
    /\ last_call = [instance |-> 0, op |-> "import", n |-> 0]
    /\ KernelOff /\ _drivers = <<>> /\ _tool_map = <<>>
    /\ TruncateOff /\ DispatchOff /\ SchemasOff /\ FilesystemOff /\ ThreadsOff /\ BridgeOff
    /\ LoopsOff

\* LLMKernel(): core.py:74-103
NewKernel(p) ==
    /\ Len(kernels) + 1 \in KernelIds
    /\ \A i \in DOMAIN kernels : kernels[i].provider = p
    /\ ~NoApiKeys(heap[API_KEYS_REF].items)
    /\ LET a1 == Alloc(heap, SchedulerObject(KernelScheduler))
           a2 == Alloc(a1.heap, ListObject(<<>>))
           ks == Append(kernels, [api_keys |-> API_KEYS_REF, _key_index |-> 0,
                                  provider |-> p, scheduler |-> a1.ref,
                                  history |-> HistoryCell(kernels, a2.ref)])
       IN  /\ kernels' = ks
           /\ heap' = Collect(a2.heap, ks)
    /\ last_call' = [instance |-> Len(kernels) + 1, op |-> "__init__", n |-> last_call.n]
    /\ UNCHANGED <<kvars, schedvars, tvars, dvars, svars, fvars, cvars, bvars, lvars>>

\* kernels[i].run(user_intent), whole: the user turn is appended to the list
\* self.history names (core.py:164, 255), _next_key is called once per HTTP
\* attempt (core.py:119, 218), and on a final answer the assistant turn is
\* appended and the history trimmed, which binds self.history to a new list
\* when it was too long (core.py:179-180, 272-273, 311)
KernelRun(i, user_intent, outcome, attempts) ==
    /\ i \in DOMAIN kernels
    /\ last_call.n < MaxKernelCalls
    /\ LET k == kernels[i]
           asked == Append(heap[k.history].items, UserTurn(k.provider, user_intent))
           h1 == [heap EXCEPT ![k.history].items = asked]
           idx == CursorAfter(heap[k.api_keys].items, k._key_index, attempts)
           answered == Append(asked, AssistantTurn(k.provider, "answer"))
       IN  IF outcome = "answer"
           THEN LET h2 == [h1 EXCEPT ![k.history].items = answered]
                IN  IF Len(answered) > MAX_HISTORY
                    THEN LET a == Alloc(h2, ListObject(_trim_history(answered)))
                             ks == [kernels EXCEPT ![i]._key_index = idx,
                                                   ![i].history = a.ref]
                         IN  kernels' = ks /\ heap' = Collect(a.heap, ks)
                    ELSE /\ kernels' = [kernels EXCEPT ![i]._key_index = idx]
                         /\ heap' = h2
           ELSE /\ kernels' = [kernels EXCEPT ![i]._key_index = idx]
                /\ heap' = h1
    /\ last_call' = [instance |-> i, op |-> "run", n |-> last_call.n + 1]
    /\ UNCHANGED <<kvars, schedvars, tvars, dvars, svars, fvars, cvars, bvars, lvars>>

\* kernels[i].clear_history(): self.history.clear() (core.py:317-319)
KernelClearHistory(i) ==
    /\ i \in DOMAIN kernels
    /\ last_call.n < MaxKernelCalls
    /\ heap' = [heap EXCEPT ![kernels[i].history].items = <<>>]
    /\ last_call' = [instance |-> i, op |-> "clear_history", n |-> last_call.n + 1]
    /\ UNCHANGED <<kernels, kvars, schedvars, tvars, dvars, svars, fvars, cvars, bvars, lvars>>

\* how a run call can end, and the HTTP attempts it made
RunOutcomes == {"answer", "no_answer", "raise"}

KernelsNext ==
    \/ \E p \in {"groq", "gemini"} : NewKernel(p)
    \/ \E i \in KernelIds, outcome \in RunOutcomes, attempts \in {1, 2} :
          KernelRun(i, Intent(last_call.n + 1), outcome, attempts)
    \/ \E i \in KernelIds : KernelClearHistory(i)

SpecKernels == KernelsInit /\ [][KernelsNext]_vars

\* C28: two Kernel instances share no mutable state: a construction, a run or a
\* clear_history on one instance leaves the history, the key cursor and the
\* registry of every other instance as they were.
C28_InstancesShareNoMutableState ==
    [][\A j \in DOMAIN kernels :
          last_call'.instance # j => KernelView(j)' = KernelView(j)]_vars

\* both instances hold a conversation; the first has just answered a run that
\* trimmed its history (binding it to a new list) and advanced its cursor
C28_Witness ==
    /\ Len(kernels) = 2
    /\ last_call.instance = 1 /\ last_call.op = "run"
    /\ Len(KernelView(1).history) = MAX_HISTORY
    /\ \E r \in DOMAIN heap : heap[r] = Garbage
    /\ KernelView(1)._key_index > 0
    /\ KernelView(2).history # <<>>
    /\ KernelView(2).history # KernelView(1).history

----------------------------------------------------------------------------
(* SpecThreads: one LLMKernel whose _next_key is called from several threads.
   The method takes no lock, so a thread may be suspended between its read of
   the cursor for the key (core.py:107), its read of the cursor for the
   addition and its write of the sum (core.py:108). *)

\* the threads calling into the kernel
ThreadIds == {1, 2}

\* a thread outside _next_key that has made n calls of it
ThreadIdle(n) == [pc |-> "idle", key |-> None, position |-> 0, loaded |-> 0, made |-> n]

ThreadsInit ==
    /\ threads = [t \in ThreadIds |-> ThreadIdle(0)]
    /\ api_keys = KeyPool(3)
    /\ _key_index = 0
    /\ keyLog = <<>>
    /\ env = None /\ provider = None /\ history = <<>>
    /\ _tools = <<>> /\ response = NoResponse
    /\ pc = "off" /\ messages = <<>> /\ round = 0 /\ attempt = 0 /\ backoff = 0
    /\ pending = <<>> /\ fn_response_parts = <<>>
    /\ ret = [kind |-> "none", value |-> None]
    /\ runs = 0 /\ calls = 0 /\ allTools = TRUE /\ hist0 = <<>>
    /\ statuses = <<>> /\ sleeps = <<>> /\ dispatched = <<>>
    /\ _drivers = <<>> /\ _tool_map = <<>>
    /\ TruncateOff /\ DispatchOff /\ SchemasOff /\ FilesystemOff /\ KernelsOff /\ BridgeOff
    /\ LoopsOff

ThreadFrame ==
    UNCHANGED <<env, provider, api_keys, history, _tools, pc, messages, round, attempt,
                backoff, pending, fn_response_parts, ret, response, runs, calls,
                allTools, hist0, statuses, sleeps, dispatched,
                schedvars, tvars, dvars, svars, fvars, ivars, bvars, lvars>>

\* key = self.api_keys[self._key_index % len(self.api_keys)] (core.py:107)
ReadKey(t) ==
    /\ threads[t].pc = "idle"
    /\ threads[t].made < MaxThreadCalls
    /\ threads' = [threads EXCEPT ![t].pc = "read",
                                  ![t].key = _next_key(api_keys, _key_index).key,
                                  ![t].position = _key_index]
    /\ UNCHANGED <<_key_index, keyLog>>
    /\ ThreadFrame

\* self._key_index += 1, its read of the attribute (core.py:108)
LoadCursor(t) ==
    /\ threads[t].pc = "read"
    /\ threads' = [threads EXCEPT ![t].pc = "loaded", ![t].loaded = _key_index]
    /\ UNCHANGED <<_key_index, keyLog>>
    /\ ThreadFrame

\* self._key_index += 1, its write of the sum; return key (core.py:108-109)
StoreCursor(t) ==
    /\ threads[t].pc = "loaded"
    /\ _key_index' = _next_key(api_keys, threads[t].loaded)._key_index
    /\ keyLog' = Append(keyLog, [thread |-> t, position |-> threads[t].position,
                                 key |-> threads[t].key])
    /\ threads' = [threads EXCEPT ![t] = ThreadIdle(threads[t].made + 1)]
    /\ ThreadFrame

ThreadsNext ==
    \E t \in ThreadIds : ReadKey(t) \/ LoadCursor(t) \/ StoreCursor(t)

SpecThreads == ThreadsInit /\ [][ThreadsNext]_vars

\* C29: when one kernel is called from several threads, the cursor advance of
\* _next_key is atomic: once no thread is inside _next_key the cursor equals the
\* number of attempts made, and no two attempts obtained the key of the same
\* cursor position.
C29_CursorAdvanceIsAtomic ==
    /\ (\A t \in ThreadIds : threads[t].pc = "idle") => _key_index = Len(keyLog)
    /\ \A a, b \in DOMAIN keyLog :
          a # b => keyLog[a].position # keyLog[b].position

----------------------------------------------------------------------------
(* SpecFilesystem: FilesystemDriver.execute on its own. A path is the sequence
   of its characters; os.path is the POSIX one. *)

PathChars == {"/", ".", "w"}

PathStrings == UNION {[1..n -> PathChars] : n \in 0..MaxPathLen}

\* config.BASE_DIR and config.WORKSPACE_DIR: a directory "w" holding the
\* program, and its workspace directory "w"
BASE_DIR == <<"/", "w">>

\* str.startswith
StartsWith(str, prefix) ==
    Len(str) >= Len(prefix) /\ SubSeq(str, 1, Len(prefix)) = prefix

\* str.endswith
EndsWith(str, suffix) ==
    Len(str) >= Len(suffix) /\ SubSeq(str, Len(str) - Len(suffix) + 1, Len(str)) = suffix

\* posixpath.join of two paths
PathJoin(a, b) ==
    IF StartsWith(b, <<"/">>) THEN b
    ELSE IF a = <<>> \/ EndsWith(a, <<"/">>) THEN a \o b
    ELSE a \o <<"/">> \o b

WORKSPACE_DIR == PathJoin(BASE_DIR, <<"w">>)

\* path.split('/'), from character i on, cur being the component under way
RECURSIVE SplitFrom(_, _, _, _)
SplitFrom(path, i, cur, comps) ==
    IF i > Len(path) THEN Append(comps, cur)
    ELSE IF path[i] = "/" THEN SplitFrom(path, i + 1, <<>>, Append(comps, cur))
    ELSE SplitFrom(path, i + 1, Append(cur, path[i]), comps)

Split(path) == SplitFrom(path, 1, <<>>, <<>>)

\* '/'.join(comps)
RECURSIVE JoinSlash(_)
JoinSlash(comps) ==
    IF comps = <<>> THEN <<>>
    ELSE IF Len(comps) = 1 THEN comps[1]
    ELSE comps[1] \o <<"/">> \o JoinSlash(Tail(comps))

DOTDOT == <<".", ".">>

\* the loop of posixpath.normpath over the components, from component i on
RECURSIVE NormComps(_, _, _, _)
NormComps(comps, i, initial_slashes, new_comps) ==
    IF i > Len(comps) THEN new_comps
    ELSE LET comp == comps[i]
         IN  IF comp = <<>> \/ comp = <<".">>
             THEN NormComps(comps, i + 1, initial_slashes, new_comps)
             ELSE IF \/ comp # DOTDOT
                     \/ (initial_slashes = 0 /\ new_comps = <<>>)
                     \/ (new_comps # <<>> /\ new_comps[Len(new_comps)] = DOTDOT)
             THEN NormComps(comps, i + 1, initial_slashes, Append(new_comps, comp))
             ELSE IF new_comps # <<>>
             THEN NormComps(comps, i + 1, initial_slashes,
                            SubSeq(new_comps, 1, Len(new_comps) - 1))
             ELSE NormComps(comps, i + 1, initial_slashes, new_comps)

\* posixpath.normpath
NormPath(path) ==
    IF path = <<>> THEN <<".">>
    ELSE LET initial_slashes ==
                 IF ~StartsWith(path, <<"/">>) THEN 0
                 ELSE IF StartsWith(path, <<"/", "/">>) /\ ~StartsWith(path, <<"/", "/", "/">>)
                 THEN 2 ELSE 1
             joined == JoinSlash(NormComps(Split(path), 1, initial_slashes, <<>>))
             result == [i \in 1..initial_slashes |-> "/"] \o joined
         IN  IF result = <<>> THEN <<".">> ELSE result

\* not resolved.startswith(WORKSPACE_DIR) (filesystem.py:18)
EscapesWorkspace(resolved) == ~StartsWith(resolved, WORKSPACE_DIR)

\* FilesystemDriver._safe_path: the resolved path, or PermissionError
_safe_path(relative_path) ==
    LET resolved == NormPath(PathJoin(WORKSPACE_DIR, relative_path))
    IN  IF EscapesWorkspace(resolved)
        THEN [raised |-> "PermissionError", resolved |-> resolved]
        ELSE [raised |-> None, resolved |-> resolved]

FilesystemTools ==
    {"list_directory", "read_file", "write_file", "append_file", "delete_file",
     "move_file", "copy_file", "create_directory"}

\* the arguments a tool hands to _safe_path, in the order it does
PathKeys(tool_name) ==
    CASE tool_name \in {"list_directory", "create_directory"} -> <<"path">>
      [] tool_name \in {"read_file", "write_file", "append_file", "delete_file"} ->
            <<"file_path">>
      [] tool_name \in {"move_file", "copy_file"} -> <<"source", "destination">>
      [] OTHER -> <<>>

\* args[key] raises KeyError when the key is absent; list_directory reads
\* args.get("path", ".") instead (filesystem.py:186)
HasPathArg(tool_name, args, key) == tool_name = "list_directory" \/ key \in DOMAIN args

PathArg(tool_name, args, key) == DictGet(args, key, <<".">>)

\* the _safe_path calls of one tool, in order, up to the first that raises
RECURSIVE ResolveArgs(_, _, _, _)
ResolveArgs(tool_name, args, keys, resolved) ==
    IF keys = <<>> THEN [raised |-> None, resolved |-> resolved]
    ELSE LET arg == PathArg(tool_name, args, Head(keys))
         IN  IF ~HasPathArg(tool_name, args, Head(keys))
             THEN [raised |-> "KeyError", resolved |-> resolved]
             ELSE LET safe == _safe_path(arg)
                  IN  IF safe.raised # None
                      THEN [raised |-> safe.raised, resolved |-> resolved]
                      ELSE ResolveArgs(tool_name, args, Tail(keys),
                                       Append(resolved, safe.resolved))

\* what the tool returns once its paths are resolved, the target being there
\* or not (filesystem.py:187-249, 251-252)
Outcome(tool_name, on_disk) ==
    IF on_disk = "present" THEN "ok"
    ELSE CASE tool_name = "list_directory" -> "Not a directory"
           [] tool_name \in {"write_file", "create_directory"} -> "ok"
           [] OTHER -> "Not found"

\* FilesystemDriver.execute(tool_name, args): what it returns and the paths
\* it read, wrote, moved or deleted
execute(tool_name, args, on_disk) ==
    IF tool_name \notin FilesystemTools
    THEN [done |-> TRUE, returned |-> "Unknown filesystem tool", touched |-> {}]
    ELSE LET r == ResolveArgs(tool_name, args, PathKeys(tool_name), <<>>)
         IN  CASE r.raised = "PermissionError" ->
                    [done |-> TRUE, returned |-> "Permission denied", touched |-> {}]
               [] r.raised = "KeyError" ->
                    [done |-> TRUE, returned |-> "Filesystem error", touched |-> {}]
               [] OTHER ->
                    [done |-> TRUE, returned |-> Outcome(tool_name, on_disk),
                     touched |-> Range(r.resolved)]

\* the paths the two-path tools are tried with on the other side: inside the
\* workspace, and above it
SamplePaths == {<<"w">>, DOTDOT}

\* the arguments of a call: the path keys of the tool (one of them left out,
\* at times) and the content
ArgsOf(tool_name) ==
    IF tool_name \in {"move_file", "copy_file"}
    THEN {[source |-> s, destination |-> d, content |-> "data"] :
             s \in PathStrings, d \in SamplePaths}
         \cup {[source |-> s, destination |-> d, content |-> "data"] :
             s \in SamplePaths, d \in PathStrings}
         \cup {[source |-> <<"w">>, content |-> "data"]}
    ELSE IF tool_name \in {"list_directory", "create_directory"}
    THEN {[path |-> q, content |-> "data"] : q \in PathStrings}
         \cup {[content |-> "data"]}
    ELSE {[file_path |-> q, content |-> "data"] : q \in PathStrings}
         \cup {[content |-> "data"]}

FilesystemInit ==
    /\ \E tool_name \in FilesystemTools \cup {"format_disk"} :
         \E args \in ArgsOf(tool_name), on_disk \in {"present", "missing"} :
            fs_request = [tool_name |-> tool_name, args |-> args, on_disk |-> on_disk]
    /\ fs_result = [done |-> FALSE]
    /\ KernelOff /\ _drivers = <<>> /\ _tool_map = <<>>
    /\ TruncateOff /\ DispatchOff /\ SchemasOff /\ ThreadsOff /\ KernelsOff /\ BridgeOff
    /\ LoopsOff

Execute ==
    /\ ~fs_result.done
    /\ fs_result' = execute(fs_request.tool_name, fs_request.args, fs_request.on_disk)
    /\ UNCHANGED <<fs_request, kvars, schedvars, tvars, dvars, svars, cvars, ivars, bvars, lvars>>

FilesystemNext == Execute

SpecFilesystem == FilesystemInit /\ [][FilesystemNext]_vars

\* the path is the workspace directory or lies beneath it, component by component
InsideWorkspace(path) ==
    LET ws == Split(WORKSPACE_DIR)
        comps == Split(path)
    IN  Len(comps) >= Len(ws) /\ SubSeq(comps, 1, Len(ws)) = ws

\* the path arguments of the request that resolve outside the workspace
RequestedOutside ==
    {k \in Range(PathKeys(fs_request.tool_name)) :
        /\ HasPathArg(fs_request.tool_name, fs_request.args, k)
        /\ ~InsideWorkspace(NormPath(PathJoin(WORKSPACE_DIR,
               PathArg(fs_request.tool_name, fs_request.args, k))))}

\* C30: every path the FilesystemDriver accepts resolves to the workspace
\* directory or beneath it; a call with a path that resolves outside (a sibling
\* directory whose name starts with the workspace's name included) returns the
\* permission-denied string and touches nothing, unless an earlier argument
\* was missing.
C30_AcceptedPathsStayInWorkspace ==
    fs_result.done =>
        /\ \A q \in fs_result.touched : InsideWorkspace(q)
        /\ (RequestedOutside # {} /\ fs_result.returned # "Filesystem error") =>
              (fs_result.returned = "Permission denied" /\ fs_result.touched = {})

----------------------------------------------------------------------------
(* The course of one run *)

\* the names of the invocations of the latest provider response
RequestedNames == [i \in DOMAIN response.calls |-> response.calls[i].name]

RunsOn == pc # "idle" /\ pc' # "idle"

\* C32: every run terminates. A run makes at most MAX_TOOL_ROUNDS provider
\* calls; a provider call makes at least 1 and at most MAX_RETRIES HTTP
\* attempts and ends at the first attempt whose status is not 429; and every
\* step of a run that does not end it moves it forward: one more attempt of the
\* same call, from the call to the dispatches of its response, one invocation
\* fewer to dispatch, or the next round.
C32_RunTerminates ==
    /\ [](/\ round <= MAX_TOOL_ROUNDS /\ calls <= MAX_TOOL_ROUNDS
          /\ attempt <= MAX_RETRIES /\ Len(statuses) <= MAX_RETRIES
          /\ \A i \in 1..(Len(statuses) - 1) : statuses[i] = 429
          /\ pc = "awaiting" =>
                /\ Len(statuses) = attempt - 1
                /\ \A i \in DOMAIN statuses : statuses[i] = 429
                /\ calls = round - 1
          /\ pc = "dispatching" =>
                (pending # <<>> /\ calls = round /\ statuses[Len(statuses)] # 429))
    /\ [][/\ (pc = "awaiting" /\ pc' # "awaiting") =>
                (Len(statuses') >= 1 /\
                 (statuses'[Len(statuses')] # 429 \/ Len(statuses') = MAX_RETRIES))
          /\ RunsOn =>
                \/ pc = "awaiting" /\ pc' = "awaiting" /\ round' = round
                   /\ attempt' = attempt + 1 /\ statuses'[Len(statuses')] = 429
                \/ pc = "awaiting" /\ pc' = "dispatching" /\ round' = round
                \/ pc = "dispatching" /\ pc' = "dispatching" /\ round' = round
                   /\ Len(pending') = Len(pending) - 1
                \/ pc = "dispatching" /\ pc' = "awaiting" /\ round' = round + 1
                   /\ attempt' = 1
         ]_vars

\* a run made every provider call it may make, the last one after rate-limited
\* attempts, and returned
C32_Witness ==
    /\ pc = "idle" /\ ret.kind = "return"
    /\ calls = MAX_TOOL_ROUNDS
    /\ Len(statuses) > 1

\* C33: when trimming shortens the history, the turns kept are exactly the
\* MAX_HISTORY most recent ones in their order (the recorded turn last, before
\* it the newest turns of the history as they were), and a history that the
\* recorded turn brings to at most MAX_HISTORY turns loses none.
C33_TrimKeepsMostRecentTurns ==
    [][(pc = "awaiting" /\ history' # history) =>
          LET n == Len(history) + 1
          IN  IF n > MAX_HISTORY
              THEN /\ Len(history') = MAX_HISTORY
                   /\ \A i \in 1..(MAX_HISTORY - 1) :
                         history'[i] = history[n - MAX_HISTORY + i]
                   /\ history'[MAX_HISTORY].role \in {"assistant", "model"}
              ELSE /\ Len(history') = n
                   /\ SubSeq(history', 1, n - 1) = history
      ]_vars

\* an answered run has just been recorded and the oldest turns were dropped
C33_Witness ==
    /\ pc = "idle" /\ ret.kind = "return"
    /\ Len(hist0) + 2 > MAX_HISTORY
    /\ Len(history) = MAX_HISTORY
    /\ history[Len(history)].role # "user"
    /\ history[1] # hist0[1]

\* the assistant turn of a response as the provider sent it
WireTurn(p, body) ==
    IF p = "groq" THEN GroqMessage(body)
    ELSE [role |-> "model", parts |-> GeminiParts(body)]

\* seq is longer than prefix and begins with it
Extends(seq, prefix) ==
    Len(seq) > Len(prefix) /\ SubSeq(seq, 1, Len(prefix)) = prefix

\* C34: within one run the conversation only grows at its end. The first call
\* sends the whole history, which ends with the new user turn; retries send the
\* same conversation; a response that requests tools is appended as the
\* provider sent it; and the results of its invocations follow in request
\* order (OpenAI-style one turn each, Gemini-style one turn holding them all)
\* before the next call is made. No turn is dropped, reordered or trimmed.
C34_ConversationGrowsByTurnAndResults ==
    [][/\ (pc = "idle" /\ pc' = "awaiting") =>
             /\ history' = Append(history, UserTurn(provider, Intent(runs')))
             /\ Len(messages') - Len(history') \in {0, 1}
             /\ SubSeq(messages', Len(messages') - Len(history') + 1, Len(messages'))
                    = history'
       /\ (pc = "awaiting" /\ pc' = "awaiting") => messages' = messages
       /\ (pc = "awaiting" /\ pc' = "dispatching") =>
             messages' = Append(messages, WireTurn(provider, response'))
       /\ (pc = "dispatching" /\ pc' # "idle") =>
             LET n == Len(response.calls)
                 k == n - Len(pending) + 1
                 last == messages'[Len(messages')]
             IN  IF provider = "groq"
                 THEN /\ Extends(messages', messages)
                      /\ Len(messages') = Len(messages) + 1
                      /\ last.role = "tool"
                      /\ last.name = response.calls[k].name
                      /\ last.tool_call_id = response.calls[k].id
                      /\ messages'[Len(messages') - k] = WireTurn(provider, response)
                 ELSE IF pc' = "dispatching"
                 THEN messages' = messages
                 ELSE /\ Extends(messages', messages)
                      /\ Len(messages') = Len(messages) + 1
                      /\ last.role = "user"
                      /\ Len(last.parts) = n
                      /\ \A i \in 1..n :
                            last.parts[i].functionResponse.name = response.calls[i].name
                      /\ messages[Len(messages)] = WireTurn(provider, response)
      ]_vars

\* the second provider call of a run is about to send the conversation of the
\* first, the tool-call turn of two invocations and their two results
C34_Witness ==
    /\ pc = "awaiting" /\ round = 2 /\ attempt = 2
    /\ Len(response.calls) = 2
    /\ hist0 # <<>>
    /\ Len(messages) >= Len(history) + 2

----------------------------------------------------------------------------
(* SpecBridge: bridge.py, the loop of bridge_stdio over the characters of stdin.
   A write to stdout is one element of bridge.stdout. *)

\* '\x04'
EOT == "EOT"

InputChars == {"a", "b", " ", EOT}

Inputs == UNION {[1..n -> InputChars] : n \in 0..MaxInputLen}

\* str.strip() of a sequence of characters
RECURSIVE StripChars(_)
StripChars(str) ==
    IF str = <<>> THEN str
    ELSE IF Head(str) = " " THEN StripChars(Tail(str))
    ELSE IF str[Len(str)] = " " THEN StripChars(SubSeq(str, 1, Len(str) - 1))
    ELSE str

\* what requests.post does: a 200 response whose JSON carries a content (a
\* text, the empty text or null), a 200 response without choices, another
\* status, or a timeout
HttpOutcomes ==
    {[kind |-> "200", choices |-> <<[content |-> c]>>] : c \in {"answer", "", None}}
    \cup {[kind |-> "200", choices |-> <<>>], [kind |-> "500"], [kind |-> "Timeout"]}

StrResult(str) == [type |-> "str", value |-> str]

\* call_llm(query): what it returns (bridge.py:42-75)
call_llm(api_key, http) ==
    IF api_key = "" THEN StrResult("Error: GROQ_API_KEY not set.")
    ELSE CASE http.kind = "Timeout" -> StrResult("Error: API request timed out.")
           [] http.kind = "500" -> StrResult("API error 500")
           [] http.kind = "200" /\ http.choices = <<>> ->
                StrResult("Error: list index out of range")
           [] OTHER ->
                IF http.choices[1].content = None THEN [type |-> "NoneType"]
                ELSE StrResult(http.choices[1].content)

BridgeInit ==
    /\ \E input \in Inputs, api_key \in {"", "gsk"} :
          bridge = [pc |-> "running", API_KEY |-> api_key, stdin |-> input, pos |-> 0,
                    buffer |-> <<>>, stdout |-> <<>>]
    /\ bridge_log = <<>>
    /\ KernelOff /\ _drivers = <<>> /\ _tool_map = <<>>
    /\ TruncateOff /\ DispatchOff /\ SchemasOff /\ FilesystemOff /\ ThreadsOff /\ KernelsOff
    /\ LoopsOff

\* one iteration of `while True` (bridge.py:87-111); http is what the request
\* does if call_llm makes it
ReadChar(http) ==
    /\ bridge.pc = "running"
    /\ IF bridge.pos = Len(bridge.stdin)
       THEN \* sys.stdin.read(1) returns "": break
            /\ bridge' = [bridge EXCEPT !.pc = "ended"]
            /\ UNCHANGED bridge_log
       ELSE LET ch == bridge.stdin[bridge.pos + 1]
                query == StripChars(bridge.buffer)
                resp == call_llm(bridge.API_KEY, http)
            IN  IF ch # EOT
                THEN /\ bridge' = [bridge EXCEPT !.pos = @ + 1, !.buffer = Append(@, ch)]
                     /\ UNCHANGED bridge_log
                ELSE IF query = <<>>
                THEN /\ bridge' = [bridge EXCEPT !.pos = @ + 1, !.buffer = <<>>]
                     /\ UNCHANGED bridge_log
                ELSE /\ bridge_log' = Append(bridge_log,
                                             [query |-> query, response |-> resp])
                     /\ IF resp.type = "str"
                        THEN bridge' = [bridge EXCEPT !.pos = @ + 1, !.buffer = <<>>,
                                           !.stdout = @ \o <<resp.value, EOT>>]
                        ELSE \* response[:100] raises TypeError, which nothing catches
                             bridge' = [bridge EXCEPT !.pos = @ + 1, !.buffer = <<>>,
                                           !.pc = "TypeError"]
    /\ UNCHANGED <<kvars, schedvars, tvars, dvars, svars, fvars, cvars, ivars, lvars>>

BridgeNext == \E http \in HttpOutcomes : ReadChar(http)

SpecBridge == BridgeInit /\ [][BridgeNext]_vars

\* the queries among the first n characters of the input: the stretches that
\* end with EOT, stripped, those that are not blank, in order
RECURSIVE QueriesFrom(_, _, _, _)
QueriesFrom(input, n, i, cur) ==
    IF i > n THEN <<>>
    ELSE IF input[i] # EOT THEN QueriesFrom(input, n, i + 1, Append(cur, input[i]))
    ELSE (IF StripChars(cur) = <<>> THEN <<>> ELSE <<StripChars(cur)>>)
         \o QueriesFrom(input, n, i + 1, <<>>)

QueriesRead == QueriesFrom(bridge.stdin, bridge.pos, 1, <<>>)

\* C35: whatever the input, every query read so far that ended with EOT and is
\* not blank got one response and one EOT after it, in the order of the
\* queries; blank queries wrote nothing; and whatever the LLM call did, the
\* response is a text and the loop goes on.
C35_OneFramedResponsePerQuery ==
    /\ bridge.pc \in {"running", "ended"}
    /\ Len(bridge_log) = Len(QueriesRead)
    /\ Len(bridge.stdout) = 2 * Len(QueriesRead)
    /\ \A i \in DOMAIN bridge_log :
          /\ bridge_log[i].query = QueriesRead[i]
          /\ bridge_log[i].response.type = "str"
          /\ bridge.stdout[2 * i - 1] = bridge_log[i].response.value
          /\ bridge.stdout[2 * i] = EOT

----------------------------------------------------------------------------
(* The shape of the history between runs *)

IsUserTurn(turn) == turn.role = "user" /\ ~IsToolTurn(turn)

IsAnswerTurn(turn) == turn.role \in {"assistant", "model"} /\ ~IsToolTurn(turn)

\* C36 (as claimed): between run calls the history is a strict alternation of
\* user and assistant turns that begins with a user turn.
C36_HistoryAlternates ==
    pc = "idle" =>
        \A i \in DOMAIN history :
            IF i % 2 = 1 THEN IsUserTurn(history[i]) ELSE IsAnswerTurn(history[i])

\* C36 (amended): between run calls the history holds only user turns and
\* assistant turns, never two assistant turns in a row, and it is empty or ends
\* with the turn of the last run: the answer if one was recorded, else the
\* user turn of that run.
C36_NoTwoAnswersInARow ==
    pc = "idle" =>
        /\ \A i \in DOMAIN history : IsUserTurn(history[i]) \/ IsAnswerTurn(history[i])
        /\ \A i \in 1..(Len(history) - 1) :
              ~(IsAnswerTurn(history[i]) /\ IsAnswerTurn(history[i + 1]))
        /\ (runs > 0 /\ history # <<>>) =>
              LET last == history[Len(history)]
              IN  IF /\ ret.kind = "return" /\ ret.value # MAX_ROUNDS_MSG
                     /\ ReadResponse(provider, response).record
                  THEN last = ReadResponse(provider, response).turn
                  ELSE last = UserTurn(provider, Intent(runs))

\* a run that raised left its user turn, and the next run was answered: two
\* user turns in a row, then the answer
C36_Witness ==
    /\ pc = "idle" /\ ret.kind = "return"
    /\ Len(history) >= 3
    /\ IsUserTurn(history[Len(history) - 2])
    /\ IsUserTurn(history[Len(history) - 1])
    /\ IsAnswerTurn(history[Len(history)])

----------------------------------------------------------------------------
(* SpecLoops: _run_groq and _run_gemini side by side, one kernel of each
   provider given the same provider results and the same driver outcomes *)

Providers == {"groq", "gemini"}

\* The provider call ends in a terminal failure: the retries are used up
\* (core.py:139-141, core.py:235-237) or the status is another error
\* (core.py:151-156, core.py:247)
FAILURE_429 == [result |-> "failure", text |-> "rate limited", calls |-> <<>>]
FAILURE_500 == [result |-> "failure", text |-> "error status", calls |-> <<>>]

\* What a provider call can give, in the neutral form: a body or a failure
NeutralResults == Bodies \cup {FAILURE_429, FAILURE_500}

\* The exception of a terminal failure, as _call_groq / _call_gemini raise it
FailureOf(p, result) ==
    IF result = FAILURE_429 THEN "HTTPError 429"
    ELSE IF p = "groq" THEN "RuntimeError: Groq API error" ELSE "HTTPError"

\* A kernel between runs
LoopIdle(h, n, names, how, value) ==
    [pc |-> "idle", history |-> h, messages |-> <<>>, round |-> 0, calls |-> n,
     dispatched |-> names, ret |-> [kind |-> how, value |-> value]]

\* _run_groq / _run_gemini up to the first provider call (core.py:164-169,
\* core.py:255-261)
LoopRun(p, st, user_intent) ==
    LET h == Append(st.history, UserTurn(p, user_intent))
    IN  IF MAX_TOOL_ROUNDS > 0
        THEN [pc |-> "awaiting", history |-> h, messages |-> Conversation(p, h),
              round |-> 1, calls |-> 0, dispatched |-> <<>>,
              ret |-> [kind |-> "none", value |-> "run"]]
        ELSE LoopIdle(h, 0, <<>>, "return", MAX_ROUNDS_MSG)

\* `for tc in tool_calls` / `for fc_part in function_calls` (core.py:187-206,
\* core.py:279-293): every tool call of the response dispatched, in order
LoopDispatches(p, tool_calls, outcome) ==
    [i \in DOMAIN tool_calls |->
        LET tc == tool_calls[i]
            tool_name == ToolCallName(p, tc)
            d == dispatch(KernelScheduler._tool_map, tool_name, ToolCallArgs(p, tc),
                          outcome)
        IN  [name |-> tool_name, executed |-> d.executed,
             entry |-> ToolResultEntry(p, tc, tool_name,
                                       _truncate(d.value, MAX_RESULT_LEN))]]

\* The conversation after the results of one round (core.py:201, core.py:295)
LoopResults(p, conv, ds) ==
    LET entries == [i \in DOMAIN ds |-> ds[i].entry]
    IN  IF p = "groq" THEN conv \o entries
        ELSE Append(conv, [role |-> "user", parts |-> entries])

\* One iteration of `for _ in range(MAX_TOOL_ROUNDS)` (core.py:168-206,
\* core.py:260-295) of a kernel whose provider call gives result, and the
\* return after the last iteration (core.py:208, core.py:297)
LoopAnswer(p, st, result, outcome) ==
    IF st.pc # "awaiting" THEN st
    ELSE IF result.result = "failure"
    THEN LoopIdle(st.history, st.calls + 1, st.dispatched, "raise", FailureOf(p, result))
    ELSE LET r == ReadResponse(p, result)
             n == st.calls + 1
         IN  CASE r.kind = "raise" ->
                    LoopIdle(st.history, n, st.dispatched, "raise", r.value)
               [] r.kind = "return" ->
                    LoopIdle(IF r.record THEN _trim_history(Append(st.history, r.turn))
                             ELSE st.history,
                             n, st.dispatched, "return", r.value)
               [] r.kind = "tools" ->
                    LET ds == LoopDispatches(p, r.tool_calls, outcome)
                        names == st.dispatched \o [i \in DOMAIN ds |-> ds[i].name]
                    IN  IF MoreRounds(st.round)
                        THEN [st EXCEPT !.messages = LoopResults(p, Append(@, r.turn), ds),
                                        !.round = @ + 1, !.calls = n,
                                        !.dispatched = names]
                        ELSE LoopIdle(st.history, n, names, "return", MAX_ROUNDS_MSG)

\* Runs made of each kernel
MaxLoopRuns == 2

LoopsInit ==
    /\ loops = [p \in Providers |-> LoopIdle(<<>>, 0, <<>>, "none", "__init__")]
    /\ fed = [run |-> 0, results |-> <<>>]
    /\ KernelOff /\ _drivers = <<>> /\ _tool_map = <<>>
    /\ TruncateOff /\ DispatchOff /\ SchemasOff /\ FilesystemOff /\ ThreadsOff /\ KernelsOff
    /\ BridgeOff

\* run(user_intent) is called on both kernels
BothRun ==
    /\ \A p \in Providers : loops[p].pc = "idle"
    /\ fed.run < MaxLoopRuns
    /\ loops' = [p \in Providers |-> LoopRun(p, loops[p], Intent(fed.run + 1))]
    /\ fed' = [run |-> fed.run + 1, results |-> <<>>]
    /\ UNCHANGED <<kvars, schedvars, tvars, dvars, svars, fvars, cvars, ivars, bvars>>

\* the provider call of every kernel that waits for one gives the same result,
\* and the drivers do the same for both
BothAnswer(result, outcome) ==
    /\ \E p \in Providers : loops[p].pc = "awaiting"
    /\ loops' = [p \in Providers |-> LoopAnswer(p, loops[p], result, outcome)]
    /\ fed' = [fed EXCEPT !.results = Append(@, result)]
    /\ UNCHANGED <<kvars, schedvars, tvars, dvars, svars, fvars, cvars, ivars, bvars>>

LoopsNext ==
    \/ BothRun
    \/ \E result \in NeutralResults, outcome \in ExecOutcomes : BothAnswer(result, outcome)

SpecLoops == LoopsInit /\ [][LoopsNext]_vars

\* the roles of the turns of a history, the assistant's role under one name
Roles(h) ==
    [i \in DOMAIN h |-> IF h[i].role = "model" THEN "assistant" ELSE h[i].role]

\* how run ended: the text it returned, or that it raised
Ending(st) == IF st.ret.kind = "return" THEN st.ret ELSE [kind |-> st.ret.kind]

\* C37: given the same provider results, the OpenAI-style loop and the
\* Gemini-style loop make the same number of provider calls, dispatch the same
\* tools in the same order, return the same text or both raise, and leave a
\* history of the same length with the same roles.
C37_LoopsAreEquivalent ==
    (fed.run > 0) =>
        /\ loops["groq"].pc = loops["gemini"].pc
        /\ loops["groq"].calls = loops["gemini"].calls
        /\ loops["groq"].dispatched = loops["gemini"].dispatched
        /\ Ending(loops["groq"]) = Ending(loops["gemini"])
        /\ Roles(loops["groq"].history) = Roles(loops["gemini"].history)

----------------------------------------------------------------------------
(* The tool results of the last round *)

\* the step dispatches a tool
ToolDispatched == Len(dispatched') > Len(dispatched)

\* C38: every tool result obtained in a run is sent to the provider in a later
\* provider call of that run: a tool is dispatched only in a round that another
\* round follows, and the dispatch does not end the run.
C38_EveryToolResultIsSent ==
    [][ToolDispatched => (MoreRounds(round) /\ pc' # "idle")]_vars

====
